---- MODULE Spec2Model ----
(***************************************************************************)
(* A model of the sorted-stack-card custom element (sorted-stack-card.js):  *)
(* its configuration, the live-state setter, the asynchronous render        *)
(* passes, the element cache and the sort-key / comparison engine.          *)
(*                                                                          *)
(* JavaScript values are tagged records: every value has a field t.         *)
(* A JavaScript string is a sequence of atoms.  In the strings that are     *)
(* compared or converted the atoms are single characters, so that case      *)
(* folding, collation, Number() and String() are computed and not assumed;  *)
(* an enumerated keyword ("desc", "last_changed") and a path segment        *)
(* ("attributes") are one atom each.  Objects are functions from property   *)
(* names to values.                                                         *)
(***************************************************************************)
EXTENDS Integers, Sequences, FiniteSets, TLC

VARIABLES
  _config,          \* this._config: 0 (undefined), or which configuration setConfig stored
  _hass,            \* this._hass: 0 (undefined), or which live-state snapshot was set last
  _built,           \* this._built (undefined is falsy: FALSE)
  _root,            \* this._root: [set |-> FALSE], or the .stack node and its children
  _helpersPromise,  \* this._helpersPromise: 0 (null/undefined) or a promise id
  _cardCache,       \* this._cardCache: descriptor reference -> element (NoElement: absent)
  promises,         \* every helper promise made so far: its state and how it was made
  elements,         \* every element made so far: what it was built for, its hass
  passes,           \* every _render() call that got past its guard: its position and locals
  factoryCalls,     \* helpers.createCardElement calls so far, per descriptor reference
  thrown,           \* what the latest host call (setConfig / set hass) threw, "" if nothing
  nHass,            \* number of `set hass` calls so far
  nCfg,             \* number of setConfig calls so far
  loadCardHelpers,  \* whether window.loadCardHelpers is defined in this page
  probe             \* inputs and results of the pure-function specifications

vars == <<_config, _hass, _built, _root, _helpersPromise, _cardCache, promises,
          elements, passes, factoryCalls, thrown, nHass, nCfg, loadCardHelpers, probe>>

-----------------------------------------------------------------------------
(* JavaScript values *)

Undef == [t |-> "undef"]
Null == [t |-> "null"]
NaN == [t |-> "nan"]
NegInf == [t |-> "ninf"]
PosInf == [t |-> "pinf"]
Bool(b) == [t |-> "bool", b |-> b]
Num(n) == [t |-> "num", n |-> n]
Str(s) == [t |-> "str", s |-> s]
Arr(a) == [t |-> "arr", a |-> a]
Obj(f) == [t |-> "obj", f |-> f]
\* a keyword: a string of one atom
W(word) == Str(<<word>>)

\* x == null
IsNullish(v) == v.t \in {"undef", "null"}

\* ToBoolean: what `!v`, `v || w`, `v && w` and `if (v)` test
Truthy(v) ==
  CASE v.t \in {"undef", "null", "nan"} -> FALSE
    [] v.t = "bool" -> v.b
    [] v.t = "num" -> v.n # 0
    [] v.t = "str" -> v.s # <<>>
    [] OTHER -> TRUE

\* v || w
Or(v, w) == IF Truthy(v) THEN v ELSE w

\* v ?? w
Coalesce(v, w) == IF IsNullish(v) THEN w ELSE v

\* o?.[k] : undefined on a nullish o, on a primitive, and on a missing property
Get(o, k) == IF o.t = "obj" /\ k \in DOMAIN o.f THEN o.f[k] ELSE Undef

-----------------------------------------------------------------------------
(* Characters: the alphabet of the modelled strings *)

Digits == <<"0", "1", "2", "3", "4", "5", "6", "7", "8", "9">>

IsDigit(c) == \E i \in 1..Len(Digits) : Digits[i] = c

DigitVal(c) == (CHOOSE i \in 1..Len(Digits) : Digits[i] = c) - 1

\* String.prototype.toLowerCase, one character
LowerChar(c) ==
  CASE c = "A" -> "a"
    [] c = "B" -> "b"
    [] c = "C" -> "c"
    [] OTHER -> c

toLowerCase(s) == [i \in 1..Len(s) |-> LowerChar(s[i])]

\* Primary collation weight of a character that is not a digit: punctuation
\* sorts before digits, digits before letters; at base sensitivity a letter
\* and its capital have the same weight.
CharWeight(c) ==
  CASE c = "-" -> <<0, 1>>
    [] c = "." -> <<0, 2>>
    [] c \in {"a", "A"} -> <<2, 1>>
    [] c \in {"b", "B"} -> <<2, 2>>
    [] c \in {"c", "C"} -> <<2, 3>>
    [] c = "l" -> <<2, 12>>
    [] c = "n" -> <<2, 14>>
    [] c = "o" -> <<2, 15>>
    [] OTHER -> <<2, 30>>

RECURSIVE DigitsValue(_)
DigitsValue(s) ==
  IF s = <<>> THEN 0 ELSE 10 * DigitsValue(SubSeq(s, 1, Len(s) - 1)) + DigitVal(s[Len(s)])

RECURSIVE DigitRun(_)
\* length of the run of digits s starts with
DigitRun(s) == IF s = <<>> \/ ~IsDigit(s[1]) THEN 0 ELSE 1 + DigitRun(Tail(s))

AllDigits(s) == s # <<>> /\ DigitRun(s) = Len(s)

RECURSIVE NatToStr(_)
NatToStr(n) == IF n < 10 THEN <<Digits[n + 1]>> ELSE NatToStr(n \div 10) \o <<Digits[(n % 10) + 1]>>

-----------------------------------------------------------------------------
(* Conversions used by _compare *)

\* Number(v) for the values a sort key can be
Number(v) ==
  CASE v.t = "num" -> v
    [] v.t \in {"ninf", "pinf", "nan"} -> v
    [] v.t = "null" -> Num(0)
    [] v.t = "bool" -> Num(IF v.b THEN 1 ELSE 0)
    [] v.t = "str" ->
         IF v.s = <<>> THEN Num(0)
         ELSE IF AllDigits(v.s) THEN Num(DigitsValue(v.s))
         ELSE IF v.s[1] = "-" /\ AllDigits(Tail(v.s)) THEN Num(0 - DigitsValue(Tail(v.s)))
         ELSE NaN
    [] OTHER -> NaN

\* String(v) for the values a sort key can be
String(v) ==
  CASE v.t = "str" -> v.s
    [] v.t = "num" -> IF v.n < 0 THEN <<"-">> \o NatToStr(0 - v.n) ELSE NatToStr(v.n)
    [] v.t = "nan" -> <<"N", "a", "N">>
    [] OTHER -> <<"?">>

\* Number.isFinite
IsFinite(v) == v.t = "num"

\* x - y on numbers that are finite or -Infinity (the only operands _compare makes)
Minus(x, y) ==
  CASE x.t = "num" /\ y.t = "num" -> Num(x.n - y.n)
    [] x.t = "num" /\ y.t = "ninf" -> PosInf
    [] x.t = "ninf" /\ y.t = "num" -> NegInf
    [] OTHER -> NaN

\* a negation that leaves its operand as it is
Negate_identity(r) == r

\* unary minus
Negate(r) ==
  CASE r.t = "num" -> Num(0 - r.n)
    [] r.t = "pinf" -> NegInf
    [] r.t = "ninf" -> PosInf
    [] OTHER -> r

\* The collation key of a string under {numeric: true, sensitivity: "base"}:
\* a run of digits is one element compared by its value, any other character
\* is compared by its primary weight.
RECURSIVE CollationKey(_)
CollationKey(s) ==
  IF s = <<>> THEN <<>>
  ELSE IF IsDigit(s[1])
       THEN LET k == DigitRun(s)
            IN <<<<1, DigitsValue(SubSeq(s, 1, k))>>>> \o CollationKey(SubSeq(s, k + 1, Len(s)))
       ELSE <<CharWeight(s[1])>> \o CollationKey(Tail(s))

RECURSIVE KeyCompare(_, _)
KeyCompare(x, y) ==
  IF x = <<>> /\ y = <<>> THEN 0
  ELSE IF x = <<>> THEN -1
  ELSE IF y = <<>> THEN 1
  ELSE IF x[1][1] # y[1][1] THEN (IF x[1][1] < y[1][1] THEN -1 ELSE 1)
  ELSE IF x[1][2] # y[1][2] THEN (IF x[1][2] < y[1][2] THEN -1 ELSE 1)
  ELSE KeyCompare(Tail(x), Tail(y))

\* av.localeCompare(bv, locale, {numeric: true, sensitivity: "base"}); the
\* modelled alphabet collates the same way in every locale
localeCompare(av, bv, locale) == Num(KeyCompare(CollationKey(av), CollationKey(bv)))

-----------------------------------------------------------------------------
(* _compare *)

\* a number that is left as it is when it is not finite
Collapse_keep(n) == n

\* lines 219-220: a number that is not finite becomes -Infinity
Collapse(n) == IF IsFinite(n) THEN n ELSE NegInf

_compare(a, b, sortCfg) ==
  LET numeric == Truthy(Get(sortCfg, "numeric"))
      orderDesc == Or(Get(sortCfg, "order"), W("asc")) = W("desc")
      ci == Truthy(Coalesce(Get(sortCfg, "case_insensitive"), Bool(TRUE)))
      locale == Or(Get(sortCfg, "locale"), W("sv-SE"))
      av0 == IF IsNullish(a.value) THEN (IF numeric THEN NegInf ELSE Str(<<>>)) ELSE a.value
      bv0 == IF IsNullish(b.value) THEN (IF numeric THEN NegInf ELSE Str(<<>>)) ELSE b.value
  IN IF numeric
     THEN LET an == Number(av0)
              bn == Number(bv0)
              aa == Collapse(an)
              bb == Collapse(bn)
              res == Minus(aa, bb)
          IN IF orderDesc THEN Negate(res) ELSE res
     ELSE LET av1 == String(av0)
              bv1 == String(bv0)
              av == IF ci THEN toLowerCase(av1) ELSE av1
              bv == IF ci THEN toLowerCase(bv1) ELSE bv1
              res == localeCompare(av, bv, locale)
          IN IF orderDesc THEN Negate(res) ELSE res

-----------------------------------------------------------------------------
(* Array.prototype.sort(comparefn): a stable sort; a NaN returned by the
   comparator is taken as +0.  Computed as an insertion sort. *)

SortSign(r) ==
  CASE r.t = "num" -> (IF r.n < 0 THEN -1 ELSE IF r.n > 0 THEN 1 ELSE 0)
    [] r.t = "pinf" -> 1
    [] r.t = "ninf" -> -1
    [] OTHER -> 0

RECURSIVE InsertItem_unstable(_, _, _)
\* a sort that is not stable: x goes before the items it compares equal to
InsertItem_unstable(sorted, x, sortCfg) ==
  IF sorted = <<>> THEN <<x>>
  ELSE LET last == sorted[Len(sorted)]
       IN IF SortSign(_compare(last, x, sortCfg)) >= 0
          THEN InsertItem_unstable(SubSeq(sorted, 1, Len(sorted) - 1), x, sortCfg) \o <<last>>
          ELSE sorted \o <<x>>

RECURSIVE InsertItem(_, _, _)
\* x goes after the last item that does not sort after it
InsertItem(sorted, x, sortCfg) ==
  IF sorted = <<>> THEN <<x>>
  ELSE LET last == sorted[Len(sorted)]
       IN IF SortSign(_compare(last, x, sortCfg)) > 0
          THEN InsertItem(SubSeq(sorted, 1, Len(sorted) - 1), x, sortCfg) \o <<last>>
          ELSE sorted \o <<x>>

RECURSIVE sort(_, _)
sort(items, sortCfg) ==
  IF items = <<>> THEN <<>>
  ELSE InsertItem(sort(SubSeq(items, 1, Len(items) - 1), sortCfg), items[Len(items)], sortCfg)

-----------------------------------------------------------------------------
(* _readAttributePath *)

RECURSIVE SplitDots(_, _)
\* pathStr.split("."): cur is the segment being read
SplitDots(s, cur) ==
  IF s = <<>> THEN <<cur>>
  ELSE IF s[1] = "." THEN <<cur>> \o SplitDots(Tail(s), <<>>)
  ELSE SplitDots(Tail(s), cur \o <<s[1]>>)

\* .filter(Boolean): the empty segments go
NonEmpty(segs) == SelectSeq(segs, LAMBDA g : g # <<>>)

\* the property name a segment spells: one atom is a name; several atoms
\* spell a name no modelled object has
SegName(g) == IF Len(g) = 1 THEN g[1] ELSE "?"

RECURSIVE Walk(_, _)
Walk(v, parts) ==
  IF parts = <<>> THEN v
  ELSE IF IsNullish(v) THEN Undef
  ELSE Walk(Get(v, SegName(parts[1])), Tail(parts))

\* the outcome of an expression that throws
Throw == [t |-> "throw"]

\* pathStr.split is not a function when a truthy pathStr is no string
_readAttributePath(obj, pathStr) ==
  IF ~Truthy(pathStr) THEN Undef
  ELSE IF pathStr.t # "str" THEN Throw
  ELSE Walk(obj, NonEmpty(SplitDots(pathStr.s, <<>>)))

\* attrPath.startsWith("attributes.")
StartsWithAttributes(s) == Len(s) >= 2 /\ s[1] = "attributes" /\ s[2] = "."

-----------------------------------------------------------------------------
(* The inputs the host supplies: panel descriptors, configurations, live-state
   snapshots.  A descriptor is an object of the configuration; the element
   cache is keyed by the object itself, so a descriptor is referred to by a
   reference (a number) and CardCfg gives the object's content. *)

EA == Str(<<"l", ".", "a">>)
EB == Str(<<"l", ".", "b">>)
EC == Str(<<"l", ".", "c">>)
\* an entity no snapshot has a record for
ED == Str(<<"l", ".", "n">>)
\* another one
EM == Str(<<"l", ".", "m">>)

\* descriptors 1 and 3 are distinct objects with the same content
CardCfg(d) ==
  CASE d = 1 -> Obj([type |-> W("button"), entity |-> EB])
    [] d = 2 -> Obj([type |-> W("button"), entity |-> EA])
    [] d = 3 -> Obj([type |-> W("button"), entity |-> EB])
    [] d = 4 -> Obj([type |-> W("entities"), entities |-> Arr(<<EC>>)])
    [] d = 5 -> Obj([type |-> W("button"), entity |-> EA, name |-> Str(<<"B">>)])
    [] d = 6 -> Obj([type |-> W("button"), entity |-> EC])
    [] d = 7 -> Obj([type |-> W("button"), entity |-> ED])
    [] d = 8 -> Obj([type |-> W("markdown")])
    [] d = 9 -> Obj([type |-> W("button"), entity |-> ED, name |-> Str(<<"Z">>)])
    [] d = 10 -> Obj([type |-> W("button"), entity |-> EM, name |-> Str(<<"A">>)])
    [] OTHER -> Undef

Descriptors == 1..10

StateRecord(state, changed) ==
  Obj([state |-> state, attributes |-> Obj([friendly_name |-> Str(<<"A">>)]),
       last_changed |-> changed, last_updated |-> changed])

EmptyObject == Obj([k \in {} |-> Undef])

\* the path "attributes.battery_level" and its like: a segment is one atom
Path(segs) ==
  Str([i \in 1..(2 * Len(segs) - 1) |-> IF i % 2 = 1 THEN segs[(i + 1) \div 2] ELSE "."])

\* the records of the third snapshot.  l.a has the attribute battery_level, an
\* attribute named state and an attribute named attributes; l.b has a negative
\* battery_level and no friendly_name; l.c has no battery_level, a
\* friendly_name that is the number 0 and an attribute that is null
RecordA ==
  Obj([state |-> Str(<<"5">>),
       attributes |-> Obj([friendly_name |-> Str(<<"A">>), battery_level |-> Num(42),
                           state |-> Str(<<"b">>),
                           attributes |-> Obj([level |-> Num(7)])]),
       last_changed |-> Str(<<"T", "5">>), last_updated |-> Str(<<"T", "6">>)])

RecordB ==
  Obj([state |-> Str(<<"9">>),
       attributes |-> Obj([battery_level |-> Num(-3)]),
       last_changed |-> Str(<<"T", "9">>), last_updated |-> Str(<<"T", "9">>)])

RecordC ==
  Obj([state |-> Str(<<"a">>),
       attributes |-> Obj([friendly_name |-> Num(0), nul |-> Null]),
       last_changed |-> Str(<<"T", "7">>), last_updated |-> Str(<<"T", "8">>)])

\* the snapshots.  Under the first the states differ, under the second they
\* differ in case only; the third has the records above, the fourth has no
\* record at all, the fifth has no states
Snapshots ==
  << Obj([states |-> Obj(EA.s :> StateRecord(Str(<<"2">>), Str(<<"T", "5">>))
                      @@ EB.s :> StateRecord(Str(<<"1", "0">>), Str(<<"T", "7">>))
                      @@ EC.s :> StateRecord(Str(<<"b">>), Str(<<"T", "9">>)))]),
     Obj([states |-> Obj(EA.s :> StateRecord(Str(<<"b">>), Str(<<"T", "8">>))
                      @@ EB.s :> StateRecord(Str(<<"B">>), Str(<<"T", "7">>))
                      @@ EC.s :> StateRecord(Str(<<"b">>), Str(<<"T", "9">>)))]),
     Obj([states |-> Obj(EA.s :> RecordA @@ EB.s :> RecordB @@ EC.s :> RecordC)]),
     Obj([states |-> EmptyObject]),
     EmptyObject >>

\* what helpers.createCardElement can do with a descriptor: it builds every
\* one of them, and descriptor 2 is one it may also fail on, by returning
\* nothing or by throwing
FactoryOutcomes(d) == IF d = 2 THEN {"element", "nothing", "reject"} ELSE {"element"}

\* sort specifications of flat configurations the key extraction and the
\* ordering are looked at under
ProbeSorts ==
  << Obj([by |-> W("entity_id"), order |-> W("asc")]),
     Obj([by |-> W("name")]),
     Obj([by |-> W("state")]),
     Obj([by |-> W("last_changed"), order |-> W("desc")]),
     Obj([by |-> W("last_updated"), order |-> W("desc")]),
     Obj([by |-> W("attribute"), attribute |-> Path(<<"battery_level">>), numeric |-> Bool(TRUE)]),
     Obj([by |-> W("attribute"), attribute |-> Path(<<"battery_level">>), numeric |-> Bool(TRUE),
          order |-> W("desc")]),
     Obj([by |-> W("bogus")]),
     Obj([by |-> W("name"), entity |-> EA]),
     Obj([by |-> W("attribute")]),
     Obj([by |-> W("state"), numeric |-> Bool(TRUE)]),
     Obj([by |-> W("state"), entity |-> EA]),
     Obj([by |-> W("state"), entity |-> EA, numeric |-> Bool(TRUE), order |-> W("desc")]),
     Obj([by |-> W("last_changed"), entity |-> EC, order |-> W("desc")]),
     Obj([by |-> W("attribute"), attribute |-> Path(<<"battery_level">>), entity |-> EB,
          numeric |-> Bool(TRUE)]),
     Obj([by |-> W("entity_id"), entity |-> ED, order |-> W("desc")]),
     Obj([by |-> W("name"), order |-> W("asc")]),
     Obj([by |-> W("state"), numeric |-> Bool(TRUE), order |-> W("asc")]) >>

\* their panels: l.b, l.a, l.c, and l.n, which no snapshot has a record for
ProbeCards == <<1, 2, 6, 7>>

\* the panels of the last but one: l.n named "Z", l.n without a name, l.m
\* named "A", neither of which any snapshot has a record for, and l.a
NamedCards == <<9, 7, 10, 2>>

\* the panels of the last: l.n first
LastCards == <<7, 1, 2, 6>>

ProbeInputs ==
  [i \in 1..Len(ProbeSorts) |->
     Obj([type |-> W("custom:sorted-stack-card"), cards |-> Arr(IF i = Len(ProbeSorts) THEN LastCards
                        ELSE IF i = Len(ProbeSorts) - 1 THEN NamedCards
                        ELSE ProbeCards),
          sort |-> ProbeSorts[i]])]

\* the configurations the host specifications call setConfig with: the fourth
\* and the fifth supply neither cards nor groups, the sixth lists one
\* descriptor object twice
HostInputObjects ==
  << Obj([type |-> W("custom:sorted-stack-card"),
          cards |-> Arr(<<1, 2, 3>>),
          sort |-> Obj([by |-> W("state")])]),
     Obj([type |-> W("custom:sorted-stack-card"),
          sort |-> Obj([by |-> W("state")]),
          groups |-> Arr(<< Obj([main |-> 4, cards |-> Arr(<<1, 2>>)]),
                            Obj([main |-> 5, cards |-> Arr(<<3, 6>>),
                                 sort_override |-> Obj([order |-> W("desc")])]) >>)]),
     Obj([type |-> W("custom:sorted-stack-card"),
          cards |-> Arr(<<2, 1>>),
          sort |-> Obj([by |-> W("attribute"), attribute |-> Num(5)])]),
     Obj([type |-> W("custom:sorted-stack-card"), sort |-> Obj([by |-> W("name")])]),
     Undef,
     Obj([type |-> W("custom:sorted-stack-card"),
          cards |-> Arr(<<1, 1>>),
          sort |-> Obj([by |-> W("state")])]) >>

\* configurations that supply cards and groups in every combination: a cards
\* list and groups, an empty cards list and groups, cards null and two groups,
\* and groups alone, the two of them sharing one descriptor object as a member
ModeInputObjects ==
  << Obj([type |-> W("custom:sorted-stack-card"),
          cards |-> Arr(<<1, 2>>),
          groups |-> Arr(<< Obj([main |-> 4, cards |-> Arr(<<3>>)]) >>),
          sort |-> Obj([by |-> W("state")])]),
     Obj([type |-> W("custom:sorted-stack-card"),
          cards |-> Arr(<<>>),
          groups |-> Arr(<< Obj([main |-> 4, cards |-> Arr(<<3>>)]) >>),
          sort |-> Obj([by |-> W("state")])]),
     Obj([type |-> W("custom:sorted-stack-card"),
          cards |-> Null,
          groups |-> Arr(<< Obj([main |-> 4, cards |-> Arr(<<1>>)]),
                            Obj([main |-> 5, cards |-> Arr(<<2>>)]) >>),
          sort |-> Obj([by |-> W("state")])]),
     Obj([type |-> W("custom:sorted-stack-card"),
          groups |-> Arr(<< Obj([main |-> 4, cards |-> Arr(<<1, 2>>)]),
                            Obj([main |-> 5, cards |-> Arr(<<1>>)]) >>),
          sort |-> Obj([by |-> W("state")])]) >>

\* what setConfig may be called with: the host's configurations, from the
\* seventh on the configurations of the sort specifications above, and after
\* them the last four
Inputs == HostInputObjects \o ProbeInputs \o ModeInputObjects

\* Object.assign(target, source) into a fresh or default target
Assign(target, source) ==
  IF source.t # "obj" THEN target
  ELSE Obj([k \in DOMAIN target.f \cup DOMAIN source.f |->
              IF k \in DOMAIN source.f THEN source.f[k] ELSE target.f[k]])

\* o with o[k] = v
With(o, k, v) == Obj([j \in DOMAIN o.f \cup {k} |-> IF j = k THEN v ELSE o.f[j]])

DefaultSort ==
  Obj([by |-> W("entity_id"), order |-> W("asc"), numeric |-> Bool(FALSE),
       locale |-> W("sv-SE"), case_insensitive |-> Bool(TRUE)])

DefaultConfig ==
  Obj([direction |-> W("vertical"), wrap |-> Bool(FALSE), gap |-> Num(8), sort |-> DefaultSort])

\* setConfig's guard: the configurations it throws on
IsConfigError(config) ==
  ~Truthy(config) \/ (IsNullish(Get(config, "cards")) /\ IsNullish(Get(config, "groups")))

\* the object setConfig stores in this._config
NormalisedConfig(config) ==
  LET c1 == Assign(DefaultConfig, config)
      c2 == With(c1, "cards", Coalesce(Get(c1, "cards"), Null))
  IN With(c2, "sort", Assign(DefaultSort, Or(Get(c2, "sort"), EmptyObject)))

\* `this`, as far as the sort keys read it: which configuration and which
\* snapshot the element holds
This == [_config |-> _config, _hass |-> _hass]

\* this._config and this._hass as objects
Config(this) == IF this._config = 0 THEN Undef ELSE NormalisedConfig(Inputs[this._config])

Hass(this) == IF this._hass = 0 THEN Undef ELSE Snapshots[this._hass]

-----------------------------------------------------------------------------
(* _getEntityFromCardConfig, _getSortValue *)

IsString(v) == v.t = "str"

\* an entity lookup that stops at the panel: the configuration's sort.entity is
\* not looked at
_getEntityFromCardConfig_noGlobal(this, cardCfg) ==
  LET ents == Get(cardCfg, "entities")
  IN IF IsString(Get(cardCfg, "entity")) /\ Truthy(Get(cardCfg, "entity"))
     THEN Get(cardCfg, "entity")
     ELSE IF ents.t = "arr" /\ Len(ents.a) > 0 /\ IsString(ents.a[1])
     THEN ents.a[1]
     ELSE IF ents.t = "arr" /\ Len(ents.a) > 0 /\ Truthy(ents.a[1])
             /\ IsString(Get(ents.a[1], "entity"))
     THEN Get(ents.a[1], "entity")
     ELSE Null

_getEntityFromCardConfig(this, cardCfg) ==
  LET ents == Get(cardCfg, "entities")
      sortEntity == Get(Get(Config(this), "sort"), "entity")
  IN IF IsString(Get(cardCfg, "entity")) /\ Truthy(Get(cardCfg, "entity"))
     THEN Get(cardCfg, "entity")
     ELSE IF ents.t = "arr" /\ Len(ents.a) > 0 /\ IsString(ents.a[1])
     THEN ents.a[1]
     ELSE IF ents.t = "arr" /\ Len(ents.a) > 0 /\ Truthy(ents.a[1])
             /\ IsString(Get(ents.a[1], "entity"))
     THEN Get(ents.a[1], "entity")
     ELSE IF IsString(sortEntity) /\ Truthy(sortEntity)
     THEN sortEntity
     ELSE Null

\* this._hass?.states?.[entityId]: the states object is keyed by entity id
StateOf(this, entityId) ==
  LET states == Get(Hass(this), "states")
  IN IF states.t = "obj" /\ entityId.t = "str" /\ entityId.s \in DOMAIN states.f
     THEN states.f[entityId.s]
     ELSE Undef

\* new Date(x).getTime(): a timestamp string is written "T" followed by its
\* epoch; a number is an epoch; anything else does not parse
DateGetTime(x) ==
  CASE x.t = "num" -> x
    [] x.t = "str" /\ Len(x.s) >= 2 /\ x.s[1] = "T" /\ AllDigits(Tail(x.s)) -> Num(DigitsValue(Tail(x.s)))
    [] OTHER -> NaN

\* an entity that is the panel's own before the sort specification's
EntityId_panelFirst(this, cardCfg, sortCfg) ==
  Or(_getEntityFromCardConfig(this, cardCfg), Get(sortCfg, "entity"))

\* line 174: the representative entity of a panel
EntityId(this, cardCfg, sortCfg) ==
  Or(Get(sortCfg, "entity"), _getEntityFromCardConfig(this, cardCfg))

\* a default key that is the empty string whatever by is
MissingDefault_empty(by) == Str(<<>>)

\* lines 179-182: the key of a panel without a state record
MissingDefault(by) ==
  IF by = W("last_changed") \/ by = W("last_updated") THEN Num(0) ELSE Str(<<>>)

\* a name key that is the first truthy one of name, friendly_name, entity id
NameKey_firstTruthy(cardCfg, st, entityId) ==
  Or(Get(cardCfg, "name"),
     Or(Get(Get(st, "attributes"), "friendly_name"), Or(entityId, Str(<<>>))))

\* line 185: (cardCfg?.name ?? st.attributes?.friendly_name ?? entityId ?? "") || ""
NameKey(cardCfg, st, entityId) ==
  Or(Coalesce(Get(cardCfg, "name"),
        Coalesce(Get(Get(st, "attributes"), "friendly_name"),
           Coalesce(entityId, Str(<<>>)))), Str(<<>>))

\* an attribute key that is looked up under "attributes." whenever the direct
\* lookup is undefined
AttributeKey_alwaysRetry(this, st, sortCfg) ==
  LET attrPath == Or(Get(sortCfg, "attribute"),
                     Or(Get(Get(Config(this), "sort"), "attribute"), Str(<<>>)))
      v1 == _readAttributePath(st, attrPath)
      v == IF v1.t = "undef"
           THEN _readAttributePath(st, Str(<<"attributes", ".">> \o attrPath.s))
           ELSE v1
  IN IF v1.t = "throw" THEN Throw ELSE Coalesce(v, Str(<<>>))

\* lines 193-198
AttributeKey(this, st, sortCfg) ==
  LET attrPath == Or(Get(sortCfg, "attribute"),
                     Or(Get(Get(Config(this), "sort"), "attribute"), Str(<<>>)))
      v1 == _readAttributePath(st, attrPath)
      v == IF v1.t = "undef" /\ ~StartsWithAttributes(attrPath.s)
           THEN _readAttributePath(st, Str(<<"attributes", ".">> \o attrPath.s))
           ELSE v1
  IN IF v1.t = "throw" THEN Throw ELSE Coalesce(v, Str(<<>>))

\* a key extraction that takes the name before it looks for the state record
_getSortValue_nameFirst(this, cardCfg, sortCfg) ==
  LET by == Or(Get(sortCfg, "by"), W("entity_id"))
      entityId == EntityId(this, cardCfg, sortCfg)
      st == IF Truthy(entityId) THEN StateOf(this, entityId) ELSE Null
  IN IF by = W("entity_id") THEN Or(entityId, Str(<<>>))
     ELSE IF by = W("name") THEN NameKey(cardCfg, st, entityId)
     ELSE IF ~Truthy(st) THEN MissingDefault(by)
     ELSE IF by = W("state") THEN Coalesce(Get(st, "state"), Str(<<>>))
     ELSE IF by = W("last_changed") THEN Or(DateGetTime(Get(st, "last_changed")), Num(0))
     ELSE IF by = W("last_updated") THEN Or(DateGetTime(Get(st, "last_updated")), Num(0))
     ELSE IF by = W("attribute") THEN AttributeKey(this, st, sortCfg)
     ELSE Str(<<>>)

\* a key extraction that looks for the state record before anything else
_getSortValue_stateFirst(this, cardCfg, sortCfg) ==
  LET by == Or(Get(sortCfg, "by"), W("entity_id"))
      entityId == EntityId(this, cardCfg, sortCfg)
      st == IF Truthy(entityId) THEN StateOf(this, entityId) ELSE Null
  IN IF ~Truthy(st) THEN MissingDefault(by)
     ELSE IF by = W("entity_id") THEN Or(entityId, Str(<<>>))
     ELSE IF by = W("name") THEN NameKey(cardCfg, st, entityId)
     ELSE IF by = W("state") THEN Coalesce(Get(st, "state"), Str(<<>>))
     ELSE IF by = W("last_changed") THEN Or(DateGetTime(Get(st, "last_changed")), Num(0))
     ELSE IF by = W("last_updated") THEN Or(DateGetTime(Get(st, "last_updated")), Num(0))
     ELSE IF by = W("attribute") THEN AttributeKey(this, st, sortCfg)
     ELSE Str(<<>>)

_getSortValue(this, cardCfg, sortCfg) ==
  LET by == Or(Get(sortCfg, "by"), W("entity_id"))
      entityId == EntityId(this, cardCfg, sortCfg)
      st == IF Truthy(entityId) THEN StateOf(this, entityId) ELSE Null
  IN IF by = W("entity_id") THEN Or(entityId, Str(<<>>))
     ELSE IF ~Truthy(st) THEN MissingDefault(by)
     ELSE IF by = W("name") THEN NameKey(cardCfg, st, entityId)
     ELSE IF by = W("state") THEN Coalesce(Get(st, "state"), Str(<<>>))
     ELSE IF by = W("last_changed") THEN Or(DateGetTime(Get(st, "last_changed")), Num(0))
     ELSE IF by = W("last_updated") THEN Or(DateGetTime(Get(st, "last_updated")), Num(0))
     ELSE IF by = W("attribute") THEN AttributeKey(this, st, sortCfg)
     ELSE Str(<<>>)

-----------------------------------------------------------------------------
(* Bounds of the model *)

\* how many times the host sets hass
MaxSetHass == 2

\* the snapshots the host sets
HostSnapshots == {1, 2}

\* how many times the host calls setConfig
MaxSetConfig == 2

-----------------------------------------------------------------------------
(* The render pass.  A pass is one call of _render() that got past its guard;
   it runs to its next await in one step.  pc says where it is suspended:
     "helpers"  _createCardElement awaits this._ensureHelpers()      (line 237)
     "got"      _getOrCreateElement has its element; the loop of the
                renderer awaits it                          (lines 269, 292, 308)
     "thrown"   an exception is on its way to the catch of _render   (line 329)
     "done"     the renderer has replaced the children of the root
     "failed"   the catch has replaced them with one error card
     "idle"     neither cards nor groups was truthy: nothing rendered *)

NoRoot == [set |-> FALSE, children |-> <<>>, by |-> 0]

\* An element is named by the pass that made it and the place in that pass's
\* output it was made for (place 0: the error card of the pass's catch).
NoElement == <<0, 0>>

EmptyCache == [d \in Descriptors |-> NoElement]

\* Node.replaceChildren(...els): the nodes are appended in turn, and appending
\* a node that is already there moves it: of equal nodes the last one stays
replaceChildren(els) ==
  LET keep == {i \in 1..Len(els) : \A j \in (i + 1)..Len(els) : els[j] # els[i]}
      F[i \in 0..Len(els)] ==
        IF i = 0 THEN <<>> ELSE IF i \in keep THEN F[i - 1] \o <<els[i]>> ELSE F[i - 1]
  IN F[Len(els)]

\* cfgs.map((cfg) => ({cfg, value: this._getSortValue(cfg, sortCfg)})); pos is
\* the index the array gives the item
MapItems(this, cfgs, sortCfg) ==
  [i \in 1..Len(cfgs) |-> [cfg |-> cfgs[i], value |-> _getSortValue(this, CardCfg(cfgs[i]), sortCfg), pos |-> i]]

Throws(items) == \E i \in 1..Len(items) : items[i].value.t = "throw"

Cfgs(items) == [i \in 1..Len(items) |-> items[i].cfg]

\* a cache that is keyed by the content of the descriptor
CacheGet_byContent(cache, d) ==
  IF cache[d] # NoElement THEN cache[d]
  ELSE IF \E e \in Descriptors : CardCfg(e) = CardCfg(d) /\ cache[e] # NoElement
  THEN cache[CHOOSE e \in Descriptors : CardCfg(e) = CardCfg(d) /\ cache[e] # NoElement]
  ELSE NoElement

\* this._cardCache.get(cardCfg): NoElement is undefined
CacheGet(cache, d) == cache[d]

\* an _ensureHelpers that makes a promise on every call
_ensureHelpers_fresh(m) ==
  IF loadCardHelpers
  THEN [m EXCEPT !.hp = Len(m.proms) + 1,
                 !.proms = Append(m.proms, [state |-> "pending", loader |-> TRUE])]
  ELSE [m EXCEPT !.hp = Len(m.proms) + 1,
                 !.proms = Append(m.proms, [state |-> "null", loader |-> FALSE])]

\* _ensureHelpers (lines 125-135): m with the promise to await in m.hp, the
\* one in this._helpersPromise, made on the first call
_ensureHelpers(m) ==
  IF m.hp # 0 THEN m
  ELSE IF loadCardHelpers
  THEN [m EXCEPT !.hp = Len(m.proms) + 1,
                 !.proms = Append(m.proms, [state |-> "pending", loader |-> TRUE])]
  ELSE [m EXCEPT !.hp = Len(m.proms) + 1,
                 !.proms = Append(m.proms, [state |-> "null", loader |-> FALSE])]

\* _getOrCreateElement(d) up to its first await
_getOrCreateElement(m, d) ==
  LET cached == CacheGet(_cardCache, d)
  IN IF cached # NoElement
     THEN [m EXCEPT !.P.pc = "got", !.P.cur = d, !.P.el = cached]
     ELSE LET e == _ensureHelpers(m)
          IN [e EXCEPT !.P.pc = "helpers", !.P.cur = d, !.P.pr = e.hp]

\* the groups of the configuration a pass began under
GroupsOf(P) == Get(NormalisedConfig(Inputs[P.c]), "groups").a

\* the renderer's local globalSort (line 278), read when the pass began
GlobalSort(P) == Or(Get(NormalisedConfig(Inputs[P.c]), "sort"), DefaultSort)

\* a sort_override that is taken alone, inheriting nothing
InnerSort_noInherit(g, globalSort) ==
  IF Truthy(Get(g, "sort_override"))
  THEN Assign(EmptyObject, Get(g, "sort_override"))
  ELSE Null

\* lines 297-298: innerSort (null without a sort_override) and effectiveSort
InnerSort(g, globalSort) ==
  IF Truthy(Get(g, "sort_override"))
  THEN Assign(Assign(EmptyObject, globalSort), Get(g, "sort_override"))
  ELSE Null

\* members that are sorted with or without a sort_override
SortIf_always(innerSort, subItems, effectiveSort) ==
  IF Throws(subItems) THEN subItems ELSE sort(subItems, effectiveSort)

\* line 305: if (innerSort) subItems.sort(...)
SortIf(innerSort, subItems, effectiveSort) ==
  IF Throws(subItems) \/ ~Truthy(innerSort) THEN subItems ELSE sort(subItems, effectiveSort)

\* a renderer that leaves out the members
SubItems_none(this, g, globalSort) == <<>>

\* lines 297-305: the members of group g, sorted only under a sort_override
SubItems(this, g, globalSort) ==
  SortIf(InnerSort(g, globalSort),
         MapItems(this, Or(Get(g, "cards"), Arr(<<>>)).a, Or(InnerSort(g, globalSort), globalSort)),
         Or(InnerSort(g, globalSort), globalSort))

\* a pass that has ended: its position is gone; what it sorted and what it
\* put on display is kept to be looked at
Ended(P, pc) ==
  [P EXCEPT !.pc = pc, !.queue = <<>>, !.cur = 0, !.pr = 0, !.el = NoElement, !.g = 0, !.phase = ""]

\* the members of the group whose main element has just been pushed
Members(m, subItems) ==
  IF Throws(subItems)
  THEN [m EXCEPT !.P.pc = "thrown"]
  ELSE [m EXCEPT !.P.phase = "members", !.P.queue = Cfgs(subItems),
                 !.P.subs = Append(m.P.subs, subItems),
                 !.P.subh = Append(m.P.subh, m.this._hass)]

\* group mode, nothing left to ask for in the block the pass is in: after a
\* main element its members (lines 297-312), after the members the next group
NextBlock(m) ==
  IF m.P.phase = "main"
  THEN Members(m, SubItems(m.this, GroupsOf(m.P)[m.P.items[m.P.g].pos], GlobalSort(m.P)))
  ELSE [m EXCEPT !.P.g = m.P.g + 1, !.P.phase = "main",
                 !.P.queue = <<Get(GroupsOf(m.P)[m.P.items[m.P.g + 1].pos], "main")>>]

\* a renderer that puts its elements on display only if no pass has begun
\* after it
Finish_latestOnly(m) ==
  IF m.id >= Len(passes)
  THEN [m EXCEPT !.P = Ended(m.P, "done"),
                 !.root = [set |-> TRUE, children |-> replaceChildren(m.P.els), by |-> m.id]]
  ELSE [m EXCEPT !.P = Ended(m.P, "done")]

\* this._root.replaceChildren(...els), and the renderer returns (lines 274, 315)
Finish(m) ==
  [m EXCEPT !.P = Ended(m.P, "done"),
            !.root = [set |-> TRUE, children |-> replaceChildren(m.P.els), by |-> m.id]]

RECURSIVE Run(_)
\* the loops of _renderFlatCards and _renderGroups from the point where the
\* next element is asked for, up to the next await, an exception, or the end
Run(m) ==
  IF m.P.pc = "thrown" THEN m
  ELSE IF m.P.queue # <<>>
  THEN _getOrCreateElement([m EXCEPT !.P.queue = Tail(m.P.queue)], Head(m.P.queue))
  ELSE IF m.P.mode = "groups" /\ (m.P.phase = "main" \/ m.P.g < Len(m.P.items))
  THEN Run(NextBlock(m))
  ELSE Finish(m)

\* the renderer with its items mapped: sorted, and into the loop
Sorted(m, mode, items, sortCfg) ==
  IF Throws(items)
  THEN [m EXCEPT !.P.pc = "thrown", !.P.mode = mode]
  ELSE [m EXCEPT !.P.mode = mode, !.P.items = sort(items, sortCfg),
                 !.P.queue = IF mode = "flat" THEN Cfgs(sort(items, sortCfg)) ELSE <<>>,
                 !.P.phase = "members"]

\* _renderFlatCards up to its first await
_renderFlatCards(m) ==
  Run(Sorted(m, "flat",
             MapItems(m.this, Or(Get(Config(m.this), "cards"), Arr(<<>>)).a,
                      Or(Get(Config(m.this), "sort"), DefaultSort)),
             Or(Get(Config(m.this), "sort"), DefaultSort)))

\* the main descriptors of the groups, in the order of the configuration
Mains(groups) == [i \in 1..Len(groups) |-> Get(groups[i], "main")]

\* _renderGroups up to its first await
_renderGroups(m) ==
  Run(Sorted(m, "groups",
             MapItems(m.this, Mains(Or(Get(Config(m.this), "groups"), Arr(<<>>)).a),
                      Or(Get(Config(m.this), "sort"), DefaultSort)),
             Or(Get(Config(m.this), "sort"), DefaultSort)))

\* a _render that takes an empty cards list as no cards
_render_nonEmpty(m) ==
  IF Truthy(Get(Config(m.this), "cards")) /\ Get(Config(m.this), "cards").a # <<>>
  THEN _renderFlatCards(m)
  ELSE IF Truthy(Get(Config(m.this), "groups")) THEN _renderGroups(m)
  ELSE [m EXCEPT !.P = Ended(m.P, "idle")]

\* _render, called with a root and a snapshot, up to its first await
_render(m) ==
  IF Truthy(Get(Config(m.this), "cards")) THEN _renderFlatCards(m)
  ELSE IF Truthy(Get(Config(m.this), "groups")) THEN _renderGroups(m)
  ELSE [m EXCEPT !.P = Ended(m.P, "idle")]

NewPass(c, h) ==
  [pc |-> "new", c |-> c, h |-> h, mode |-> "", items |-> <<>>, g |-> 0, phase |-> "",
   subs |-> <<>>, queue |-> <<>>, cur |-> 0, pr |-> 0, el |-> NoElement, els |-> <<>>,
   asked |-> <<>>, subh |-> <<>>]

\* the part of the state a pass reads and writes while it runs to an await
Machine(this, P, id, root) ==
  [this |-> this, P |-> P, id |-> id, root |-> root, hp |-> _helpersPromise, proms |-> promises]

\* a new element: what it was made for (0: for no descriptor), its kind (a
\* card, or a hui-error-card with its message), the snapshot it has been given
\* (0: none), whether it has the class "item"
NewElement(d, kind, error) == [cfg |-> d, kind |-> kind, error |-> error, hass |-> 0, item |-> FALSE]

-----------------------------------------------------------------------------
(* The host's calls *)

\* _build(): a new .stack without children
FreshRoot == [set |-> TRUE, children |-> <<>>, by |-> 0]

\* a pass has run to an await or to its end: what it left behind
Suspend(m) ==
  /\ _root' = m.root
  /\ _helpersPromise' = m.hp
  /\ promises' = m.proms
  /\ passes' = [i \in 1..(IF m.id > Len(passes) THEN m.id ELSE Len(passes)) |->
                  IF i = m.id THEN m.P ELSE passes[i]]

\* a setConfig that resets the element before it looks at config
setConfig_resetFirst(i) ==
  /\ nCfg < MaxSetConfig
  /\ nCfg' = nCfg + 1
  /\ _built' = FALSE /\ _helpersPromise' = 0 /\ _cardCache' = EmptyCache
  /\ IF IsConfigError(Inputs[i])
     THEN thrown' = "Error" /\ UNCHANGED _config
     ELSE thrown' = "" /\ _config' = i
  /\ UNCHANGED <<_hass, _root, promises, elements, passes, factoryCalls, nHass,
                 loadCardHelpers, probe>>

\* setConfig(config), config being Inputs[i]
setConfig(i) ==
  /\ nCfg < MaxSetConfig
  /\ nCfg' = nCfg + 1
  /\ IF IsConfigError(Inputs[i])
     THEN /\ thrown' = "Error"
          /\ UNCHANGED <<_config, _built, _helpersPromise, _cardCache>>
     ELSE /\ thrown' = ""
          /\ _config' = i
          /\ _built' = FALSE
          /\ _helpersPromise' = 0
          /\ _cardCache' = EmptyCache
  /\ UNCHANGED <<_hass, _root, promises, elements, passes, factoryCalls, nHass,
                 loadCardHelpers, probe>>

\* set hass(hass), hass being Snapshots[h]: _build() when not built, then
\* _render() up to its first await.  _build() throws on an element that has
\* no configuration yet, after it has set _built.
sethass(h) ==
  /\ nHass < MaxSetHass
  /\ nHass' = nHass + 1
  /\ _hass' = h
  /\ _built' = TRUE
  /\ IF ~_built /\ _config = 0
     THEN /\ thrown' = "TypeError"
          /\ UNCHANGED <<_root, _helpersPromise, promises, passes>>
     ELSE /\ thrown' = ""
          /\ IF _built /\ ~_root.set
             THEN UNCHANGED <<_root, _helpersPromise, promises, passes>>
             ELSE Suspend(_render(Machine([This EXCEPT !._hass = h], NewPass(_config, h),
                                          Len(passes) + 1,
                                          IF _built THEN _root ELSE FreshRoot)))
  /\ UNCHANGED <<_config, _cardCache, elements, factoryCalls, nCfg, loadCardHelpers, probe>>

-----------------------------------------------------------------------------
(* The continuations of a suspended pass, and what they wait for *)

\* window.loadCardHelpers()'s promise settles: with the helpers, with
\* nothing, or rejected
HelpersSettle(pr, outcome) ==
  /\ pr \in 1..Len(promises)
  /\ promises[pr].state = "pending"
  /\ promises' = [promises EXCEPT ![pr].state = outcome]
  /\ UNCHANGED <<_config, _hass, _built, _root, _helpersPromise, _cardCache, elements,
                 passes, factoryCalls, thrown, nHass, nCfg, loadCardHelpers, probe>>

\* a cache that stores under the content of the descriptor: every descriptor
\* of the same content gets the element
CacheSet_byContent(cache, d, el) ==
  [e \in Descriptors |-> IF CardCfg(e) = CardCfg(d) THEN el ELSE cache[e]]

\* this._cardCache.set(cardCfg, el) (line 254); el = NoElement stores undefined
CacheSet(cache, d, el) == [cache EXCEPT ![d] = el]

\* a pass without the catch: what the pass has made so far goes on display
Caught_partial(p, message) ==
  /\ elements' = (<<p, 0>> :> NewElement(0, "error", message)) @@ elements
  /\ _root' = [_root EXCEPT !.children = replaceChildren(passes[p].els \o << <<p, 0>> >>), !.by = p]
  /\ passes' = [passes EXCEPT ![p] = Ended(NewPass(passes[p].c, passes[p].h), "failed")]

\* the catch of _render (lines 329-336) in pass p: one error card, which
\* shows the exception's message, replaces the children of the root
Caught(p, message) ==
  /\ elements' = (<<p, 0>> :> NewElement(0, "error", message)) @@ elements
  /\ _root' = [_root EXCEPT !.children = replaceChildren(<< <<p, 0>> >>), !.by = p]
  /\ passes' = [passes EXCEPT ![p] = Ended(NewPass(passes[p].c, passes[p].h), "failed")]

\* _getOrCreateElement after `await this._createCardElement(cardCfg)`: el is
\* stored in the cache and returned to the renderer (lines 254-255)
Created(p, el) ==
  /\ _cardCache' = CacheSet(_cardCache, passes[p].cur, el)
  /\ passes' = [passes EXCEPT ![p].pc = "got", ![p].el = el]

\* the element pass p makes for the descriptor it is at
NextElement(p) == <<p, Len(passes[p].els) + 1>>

\* `await this._ensureHelpers()` throws: the promise was rejected
HelpersRejected(p) ==
  /\ Caught(p, "helpers rejected")
  /\ UNCHANGED <<_cardCache, factoryCalls>>

\* a pass that is aborted when there are no helpers
HelpersMissing_aborts(p) ==
  /\ Caught(p, "Card helpers not available.")
  /\ UNCHANGED <<_cardCache, factoryCalls>>

\* lines 238-245: no helpers, an error card of its own for the descriptor
HelpersMissing(p) ==
  /\ elements' = (NextElement(p) :> NewElement(passes[p].cur, "error", "Card helpers not available.")) @@ elements
  /\ Created(p, NextElement(p))
  /\ UNCHANGED <<_root, factoryCalls>>

\* line 246: helpers.createCardElement(cardCfg) is called, and gives an
\* element, nothing, or an exception
HelpersReady(p, outcome) ==
  /\ factoryCalls' = [factoryCalls EXCEPT ![passes[p].cur] = @ + 1]
  /\ CASE outcome = "reject" ->
            /\ Caught(p, "factory threw")
            /\ UNCHANGED _cardCache
       [] outcome = "nothing" ->
            /\ Created(p, NoElement)
            /\ UNCHANGED <<elements, _root>>
       [] OTHER ->
            /\ elements' = (NextElement(p) :> NewElement(passes[p].cur, "card", "")) @@ elements
            /\ Created(p, NextElement(p))
            /\ UNCHANGED _root

\* _createCardElement after `await this._ensureHelpers()` (lines 238-246) and
\* what follows it up to the renderer's await.  Between the await on the
\* helpers and the store in the cache the pass reads nothing another pass can
\* write, so the awaits between them are one step; an exception reaches the
\* catch of _render the same way.
_createCardElement(p, outcome) ==
  /\ passes[p].pc = "helpers"
  /\ promises[passes[p].pr].state # "pending"
  /\ outcome \in FactoryOutcomes(passes[p].cur)
  /\ CASE promises[passes[p].pr].state = "rejected" -> outcome = "element" /\ HelpersRejected(p)
       [] promises[passes[p].pr].state = "null" -> outcome = "element" /\ HelpersMissing(p)
       [] OTHER -> HelpersReady(p, outcome)
  /\ UNCHANGED <<_config, _hass, _built, _helpersPromise, promises, thrown,
                 nHass, nCfg, loadCardHelpers, probe>>

\* a renderer that gives the snapshot to the elements that have none yet
SetHass_newOnly(els, el, h) ==
  IF els[el].hass = 0 THEN [els EXCEPT ![el].hass = h, ![el].item = TRUE]
  ELSE [els EXCEPT ![el].item = TRUE]

\* el.hass = this._hass; el.classList?.add("item") (lines 270-271, 293-294, 309-310)
SetHass(els, el, h) == [els EXCEPT ![el].hass = h, ![el].item = TRUE]

\* the renderer after `await this._getOrCreateElement(..)`: el.hass = this._hass,
\* the class, the push, and on to the next await or the end
Continue(p) ==
  LET P == passes[p]
  IN /\ P.pc = "got"
     /\ IF P.el = NoElement
        THEN /\ Caught(p, "el is undefined")
             /\ UNCHANGED <<_helpersPromise, promises>>
        ELSE /\ elements' = SetHass(elements, P.el, _hass)
             /\ Suspend(Run(Machine(This, [P EXCEPT !.els = Append(P.els, P.el),
                                                    !.asked = Append(P.asked, P.cur)], p, _root)))
     /\ UNCHANGED <<_config, _hass, _built, _cardCache, factoryCalls, thrown, nHass, nCfg,
                    loadCardHelpers, probe>>

\* the catch of _render when the exception was thrown before the first await
Catch(p) ==
  /\ passes[p].pc = "thrown"
  /\ Caught(p, "pathStr.split is not a function")
  /\ UNCHANGED <<_config, _hass, _built, _helpersPromise, _cardCache, promises, factoryCalls,
                 thrown, nHass, nCfg, loadCardHelpers, probe>>

-----------------------------------------------------------------------------
(* The element's life: constructed, then driven by the host and by the
   promises its passes wait for *)

NoProbe == [op |-> "none"]

\* the configuration with an empty cards list
EmptyCardsInput == Len(HostInputObjects) + Len(ProbeInputs) + 2

\* the configurations the host of this specification passes to setConfig:
\* the flat ones, among them the one with an empty list, and the ones that
\* are refused
HostInputs == {1, 3, 4, 5, EmptyCardsInput}

Init ==
  /\ _config = 0
  /\ _hass = 0
  /\ _built = FALSE
  /\ _root = NoRoot
  /\ _helpersPromise = 0
  /\ _cardCache = EmptyCache
  /\ promises = <<>>
  /\ elements = <<>>
  /\ passes = <<>>
  /\ factoryCalls = [d \in Descriptors |-> 0]
  /\ thrown = ""
  /\ nHass = 0
  /\ nCfg = 0
  /\ loadCardHelpers \in BOOLEAN
  /\ probe = NoProbe

Next ==
  \/ \E i \in HostInputs : setConfig(i)
  \/ \E h \in HostSnapshots : sethass(h)
  \/ \E pr \in 1..Len(promises), outcome \in {"ok", "null", "rejected"} : HelpersSettle(pr, outcome)
  \/ \E p \in 1..Len(passes), outcome \in {"element", "nothing", "reject"} : _createCardElement(p, outcome)
  \/ \E p \in 1..Len(passes) : Continue(p)
  \/ \E p \in 1..Len(passes) : Catch(p)

Spec == Init /\ [][Next]_vars

-----------------------------------------------------------------------------
(* The element once setConfig has given it one configuration, flat or with
   groups: the host sets hass, and the passes run *)

ConfiguredInputs == {1, 2, 3, 6}

InitConfigured ==
  /\ _config \in ConfiguredInputs
  /\ _hass = 0
  /\ _built = FALSE
  /\ _root = NoRoot
  /\ _helpersPromise = 0
  /\ _cardCache = EmptyCache
  /\ promises = <<>>
  /\ elements = <<>>
  /\ passes = <<>>
  /\ factoryCalls = [d \in Descriptors |-> 0]
  /\ thrown = ""
  /\ nHass = 0
  /\ nCfg = 1
  /\ loadCardHelpers \in BOOLEAN
  /\ probe = NoProbe

NextConfigured ==
  \/ \E h \in HostSnapshots : sethass(h)
  \/ \E pr \in 1..Len(promises), outcome \in {"ok", "null", "rejected"} : HelpersSettle(pr, outcome)
  \/ \E p \in 1..Len(passes), outcome \in {"element", "nothing", "reject"} : _createCardElement(p, outcome)
  \/ \E p \in 1..Len(passes) : Continue(p)
  \/ \E p \in 1..Len(passes) : Catch(p)

SpecConfigured == InitConfigured /\ [][NextConfigured]_vars

-----------------------------------------------------------------------------
(* The same element under a configuration that supplies cards and groups in
   one of the combinations, or under the one whose sort throws *)

ModeInputs == {3} \cup ((Len(HostInputObjects) + Len(ProbeInputs) + 1)..Len(Inputs))

InitModes ==
  /\ _config \in ModeInputs
  /\ _hass = 0
  /\ _built = FALSE
  /\ _root = NoRoot
  /\ _helpersPromise = 0
  /\ _cardCache = EmptyCache
  /\ promises = <<>>
  /\ elements = <<>>
  /\ passes = <<>>
  /\ factoryCalls = [d \in Descriptors |-> 0]
  /\ thrown = ""
  /\ nHass = 0
  /\ nCfg = 1
  /\ loadCardHelpers \in BOOLEAN
  /\ probe = NoProbe

SpecModes == InitModes /\ [][NextConfigured]_vars

-----------------------------------------------------------------------------
(* What is on display *)

\* the descriptors the displayed elements were made for, in displayed order
DisplayCfgs == [i \in 1..Len(_root.children) |-> elements[_root.children[i]].cfg]

\* the index of descriptor d in a sequence of descriptors (0: not there)
IndexOf(seq, d) == IF \E i \in 1..Len(seq) : seq[i] = d THEN CHOOSE i \in 1..Len(seq) : seq[i] = d ELSE 0

\* the passes whose output is on display: they ended with the renderer's
\* replaceChildren and no pass has replaced the children since
Showing(mode) ==
  {p \in 1..Len(passes) : _root.by = p /\ passes[p].pc = "done" /\ passes[p].mode = mode}

\* the cards of the flat configuration pass p began under
CardsOf(p) == Get(Inputs[passes[p].c], "cards").a

\* whether the cards are objects that differ pairwise
Distinct(cards) == \A i, j \in 1..Len(cards) : i # j => cards[i] # cards[j]

\* one displayed element per panel of cards: as many elements as panels, no
\* element twice, and for every panel the element made for it
OnePerPanel(cards) ==
  /\ Len(_root.children) = Len(cards)
  /\ \A i, j \in 1..Len(_root.children) : i # j => _root.children[i] # _root.children[j]
  /\ \A k \in 1..Len(cards) : IndexOf(DisplayCfgs, cards[k]) # 0

\* C1, as claimed: in flat mode the display a completed pass leaves holds
\* exactly one element per panel of cards, for every configuration with a
\* cards list and every snapshot
C1_OnePerPanel == \A p \in Showing("flat") : OnePerPanel(CardsOf(p))

\* C1, as the code has it: in flat mode the display a completed pass leaves
\* holds exactly one element per panel of cards whenever the panels of cards
\* are pairwise distinct objects
C1_OnePerDistinctPanel ==
  \A p \in Showing("flat") : Distinct(CardsOf(p)) => OnePerPanel(CardsOf(p))

\* a pass over three panels, two of them alike in content, begun while another
\* was in flight, is on display
C1_Witness ==
  \E p \in Showing("flat") : /\ p = 2 /\ Len(CardsOf(p)) = 3 /\ Distinct(CardsOf(p))
                             /\ passes[1].pc = "done" /\ Len(_root.children) = 3

\* the sort specification the members of the k-th displayed group of pass p
\* are sorted with
EffectiveSort(p, k) ==
  Or(InnerSort(GroupsOf(passes[p])[passes[p].items[k].pos], GlobalSort(passes[p])),
     GlobalSort(passes[p]))

\* whether the k-th displayed group of pass p has a sort_override
HasOverride(p, k) == Truthy(Get(GroupsOf(passes[p])[passes[p].items[k].pos], "sort_override"))

\* of any two distinct panels of items whose keys compare equal under sortCfg,
\* the one that comes first in the configuration comes first on display
KeepsOrder(items, sortCfg) ==
  \A i, j \in 1..Len(items) :
    (/\ items[i].pos < items[j].pos
     /\ items[i].cfg # items[j].cfg
     /\ SortSign(_compare(items[i], items[j], sortCfg)) = 0)
    => /\ IndexOf(DisplayCfgs, items[i].cfg) # 0
       /\ IndexOf(DisplayCfgs, items[i].cfg) < IndexOf(DisplayCfgs, items[j].cfg)

\* C2: the ordering is stable. On the display of a completed pass, in flat
\* mode, among the group headers, and among the members of a group that has a
\* sort_override, two panels whose keys compare equal stand in the order the
\* configuration has them in
C2_Stable ==
  /\ \A p \in Showing("flat") : KeepsOrder(passes[p].items, GlobalSort(passes[p]))
  /\ \A p \in Showing("groups") :
       /\ KeepsOrder(passes[p].items, GlobalSort(passes[p]))
       /\ \A k \in 1..Len(passes[p].subs) :
            HasOverride(p, k) => KeepsOrder(passes[p].subs[k], EffectiveSort(p, k))

\* a group display under the second snapshot: the two headers have equal keys,
\* and so have the two members of the group with the sort_override
C2_Witness ==
  \E p \in Showing("groups") :
    /\ SortSign(_compare(passes[p].items[1], passes[p].items[2], GlobalSort(passes[p]))) = 0
    /\ \E k \in 1..Len(passes[p].subs) :
         /\ HasOverride(p, k)
         /\ Len(passes[p].subs[k]) = 2
         /\ SortSign(_compare(passes[p].subs[k][1], passes[p].subs[k][2], EffectiveSort(p, k))) = 0

\* the resolutions of pass p that have returned to the renderer: the i-th
\* was asked for descriptor passes[p].asked[i] and gave element passes[p].els[i]
Resolutions(p) == 1..Len(passes[p].els)

\* C4: under one configuration, two resolutions of the same descriptor object
\* give the same element, and resolutions of two distinct descriptor objects
\* give different elements
C4_SameDescriptorSameElement ==
  \A p, q \in 1..Len(passes) : \A i \in Resolutions(p), j \in Resolutions(q) :
    (passes[p].asked[i] = passes[q].asked[j]) <=> (passes[p].els[i] = passes[q].els[j])

\* two passes have resolved one descriptor to two elements
C4_TwoElements ==
  \E p, q \in 1..Len(passes) : \E i \in Resolutions(p), j \in Resolutions(q) :
    /\ passes[p].asked[i] = passes[q].asked[j]
    /\ passes[p].els[i] # passes[q].els[j]
    /\ elements[passes[p].els[i]].kind = "card" /\ elements[passes[q].els[j]].kind = "card"

\* C5: under one configuration the factory is invoked at most once for a
\* descriptor object, here for every descriptor the factory never fails on
C5_FactoryOnce ==
  \A d \in Descriptors : FactoryOutcomes(d) = {"element"} => factoryCalls[d] <= 1

\* the factory has been invoked twice for a descriptor by two passes that
\* both began before either had its element
C5_Race ==
  \E d \in Descriptors :
    /\ FactoryOutcomes(d) = {"element"} /\ factoryCalls[d] = 2
    /\ Len(passes) = 2 /\ passes[1].pc = "got" /\ passes[2].pc = "got"
    /\ passes[1].cur = d /\ passes[2].cur = d /\ passes[1].el # passes[2].el

\* pass p ends in this step: its renderer returns, or its catch has run
EndsDone(p) ==
  /\ p <= Len(passes') /\ passes'[p].pc = "done"
  /\ (p > Len(passes) \/ passes[p].pc # "done")

EndsFailed(p) ==
  /\ p <= Len(passes') /\ passes'[p].pc = "failed"
  /\ (p > Len(passes) \/ passes[p].pc # "failed")

\* C6: passes are neither serialized nor cancelled. Whenever a pass ends, the
\* display is replaced by that pass's elements in the order that pass
\* computed, whatever passes began after it; and nothing but the end of a pass
\* or a rebuild changes the display. So the pass that ends last has its order
\* on display
C6_LastToEndWins ==
  [][/\ \A p \in 1..Len(passes') :
          EndsDone(p) => /\ _root'.by = p
                         /\ _root'.children = passes'[p].els
                         /\ DisplayCfgs' = Cfgs(passes'[p].items)
     /\ _root'.children # _root.children =>
          \/ \E p \in 1..Len(passes') : EndsDone(p) \/ EndsFailed(p)
          \/ _root'.children = <<>>]_vars

\* both passes have ended; the pass that began first, with the older snapshot,
\* ended last, and its order, not the newer pass's, is on display
C6_Witness ==
  /\ Len(passes) = 2 /\ passes[1].pc = "done" /\ passes[2].pc = "done" /\ _root.by = 1
  /\ passes[1].h # passes[2].h /\ _hass = passes[2].h
  /\ Cfgs(passes[1].items) # Cfgs(passes[2].items)
  /\ DisplayCfgs = Cfgs(passes[1].items)

\* config supplies neither cards nor groups, or is no configuration at all
NeitherCardsNorGroups(config) ==
  config.t \in {"undef", "null"}
    \/ (Get(config, "cards").t \in {"undef", "null"} /\ Get(config, "groups").t \in {"undef", "null"})

\* C7: setConfig with a configuration that supplies neither cards nor groups
\* throws an Error and leaves the stored configuration, the built flag and
\* the element cache as they were
C7_InvalidConfigThrows ==
  [][\A i \in HostInputs :
       (NeitherCardsNorGroups(Inputs[i]) /\ setConfig(i)) =>
         /\ thrown' = "Error"
         /\ _config' = _config /\ _built' = _built /\ _cardCache' = _cardCache]_vars

\* setConfig has thrown on an element that is configured, built, and holds
\* elements in its cache
C7_Witness ==
  /\ thrown = "Error" /\ nCfg = 2
  /\ _config # 0 /\ _built
  /\ \E d \in Descriptors : _cardCache[d] # NoElement

\* C8: a pass that ends by a fault ends in its catch: the whole display is
\* replaced by exactly one error card, made by that pass
C8_FaultGivesOnePlaceholder ==
  [][\A p \in 1..Len(passes') :
       EndsFailed(p) => /\ _root'.children = << <<p, 0>> >>
                        /\ _root'.by = p
                        /\ elements'[<<p, 0>>].kind = "error"]_vars

\* the factory threw in a pass that had made an element already; one error
\* card is on display
C8_Witness ==
  \E p \in 1..Len(passes) :
    /\ passes[p].pc = "failed" /\ _root.by = p
    /\ <<p, 1>> \in DOMAIN elements
    /\ _root.children = << <<p, 0>> >>
    /\ elements[<<p, 0>>].error = "factory threw"

\* the messages of the error card of a pass aborted because the helpers'
\* load was rejected, or the factory threw or returned nothing
FactoryFailures == {"helpers rejected", "factory threw", "el is undefined"}

NoHelpers == promises # <<>> /\ promises[1].state = "null"

MembersOf(p, k) == Or(Get(GroupsOf(passes[p])[passes[p].items[k].pos], "cards"), Arr(<<>>)).a

\* how many elements the groups displayed before the k-th take up
BlockStart(p, k) ==
  LET F[j \in 0..Len(passes[p].items)] == IF j = 0 THEN 0 ELSE F[j - 1] + 1 + Len(MembersOf(p, j))
  IN F[k - 1]

\* the descriptors displayed as the members of the k-th displayed group
DisplayedMembers(p, k) ==
  SubSeq(DisplayCfgs, BlockStart(p, k) + 2, BlockStart(p, k) + 1 + Len(MembersOf(p, k)))

\* C10: in group mode the members of a group without a sort_override are
\* displayed in their configured order
C10_NoOverrideKeepsOrder ==
  \A p \in Showing("groups") : \A k \in 1..Len(passes[p].items) :
    ~HasOverride(p, k) => DisplayedMembers(p, k) = MembersOf(p, k)

\* a group without a sort_override is displayed second, with its two members
\* in configured order, though the global sort would have them the other way
\* round
C10_Witness ==
  \E p \in Showing("groups") :
    /\ ~HasOverride(p, 2) /\ Len(passes[p].subs) = 2
    /\ DisplayedMembers(p, 2) = MembersOf(p, 2)
    /\ SortSign(_compare(passes[p].subs[2][1], passes[p].subs[2][2], GlobalSort(passes[p]))) > 0

-----------------------------------------------------------------------------
(* _compare on its own: a pair of keys and a sort specification are drawn, and
   the comparator is applied to the pair both ways round, under either order *)

\* keys the extraction hands to the comparator: states, names and entity ids
\* are strings, "" standing for a missing one, timestamps are numbers; and
\* null and undefined, which the comparator provides for
Keys ==
  { Str(<<>>), Str(<<"a">>), Str(<<"B">>), Str(<<"b">>), Str(<<"9">>), Str(<<"1", "0">>),
    Str(<<"-", "3">>), Str(<<"o", "n">>), Str(<<"o", "f", "f">>), Num(5), Null, Undef }

\* a sort specification as setConfig leaves it
SortCfg(numeric, ci, order) ==
  Assign(DefaultSort, Obj([numeric |-> Bool(numeric), case_insensitive |-> Bool(ci),
                           order |-> W(order)]))

InitCompare ==
  /\ _config = 0 /\ _hass = 0 /\ _built = FALSE /\ _root = NoRoot
  /\ _helpersPromise = 0 /\ _cardCache = EmptyCache
  /\ promises = <<>> /\ elements = <<>> /\ passes = <<>>
  /\ factoryCalls = [d \in Descriptors |-> 0]
  /\ thrown = "" /\ nHass = 0 /\ nCfg = 0 /\ loadCardHelpers = FALSE
  /\ probe \in [op : {"compare"}, a : Keys, b : Keys, numeric : BOOLEAN, ci : BOOLEAN]

\* the four calls of _compare on the drawn pair
Compare ==
  /\ probe.op = "compare"
  /\ probe' =
       [op |-> "compared", a |-> probe.a, b |-> probe.b, numeric |-> probe.numeric, ci |-> probe.ci,
        ab |-> _compare([value |-> probe.a], [value |-> probe.b], SortCfg(probe.numeric, probe.ci, "asc")),
        ba |-> _compare([value |-> probe.b], [value |-> probe.a], SortCfg(probe.numeric, probe.ci, "asc")),
        abDesc |-> _compare([value |-> probe.a], [value |-> probe.b], SortCfg(probe.numeric, probe.ci, "desc")),
        baDesc |-> _compare([value |-> probe.b], [value |-> probe.a], SortCfg(probe.numeric, probe.ci, "desc"))]
  /\ UNCHANGED <<_config, _hass, _built, _root, _helpersPromise, _cardCache, promises,
                 elements, passes, factoryCalls, thrown, nHass, nCfg, loadCardHelpers>>

NextCompare == Compare

SpecCompare == InitCompare /\ [][NextCompare]_vars

\* x == y on numbers: NaN equals nothing
NumberEquals(x, y) == x.t # "nan" /\ y.t # "nan" /\ x = y

\* C3: for every pair of keys and every sort specification, _compare(a, b) is
\* the negation of _compare(b, a), under order asc and under order desc, and
\* the result under desc is the negation of the result under asc
C3_Antisymmetric ==
  probe.op = "compared" =>
    /\ NumberEquals(probe.ab, Negate(probe.ba))
    /\ NumberEquals(probe.abDesc, Negate(probe.baDesc))
    /\ NumberEquals(probe.abDesc, Negate(probe.ab))

\* the keys "on" and "off" have been compared in numeric mode
C3_NonFinitePair ==
  /\ probe.op = "compared" /\ probe.numeric
  /\ probe.a = Str(<<"o", "n">>) /\ probe.b = Str(<<"o", "f", "f">>)
  /\ probe.ab = NaN /\ probe.ba = NaN

-----------------------------------------------------------------------------
(* Group mode: the sort_override *)

\* the global sort specification of the configuration pass p began under
GlobalOf(p) == Get(NormalisedConfig(Inputs[passes[p].c]), "sort")

\* the sort_override of the k-th displayed group of pass p
OverrideOf(p, k) == Get(GroupsOf(passes[p])[passes[p].items[k].pos], "sort_override")

\* override over global, field by field: a field of override replaces, any
\* other field is global's
Merged(global, override) ==
  Obj([f \in DOMAIN global.f \cup DOMAIN override.f |->
         IF f \in DOMAIN override.f THEN override.f[f] ELSE global.f[f]])

\* cfgs in the order sortCfg gives them under configuration c and snapshot h
OrderOf(c, h, cfgs, sortCfg) ==
  Cfgs(sort(MapItems([_config |-> c, _hass |-> h], cfgs, sortCfg), sortCfg))

\* the headers of the groups as displayed by pass p
DisplayedHeaders(p) ==
  [k \in 1..Len(passes[p].items) |-> DisplayCfgs[BlockStart(p, k) + 1]]

\* C11: on the display of a completed group pass the headers stand in the
\* order of the global specification alone; the members of a group with a
\* sort_override stand in the order of the override merged field by field
\* over the global specification; the members of every other group stand as
\* configured
C11_OverrideOrdersOwnMembers ==
  \A p \in Showing("groups") :
    /\ DisplayedHeaders(p) =
         OrderOf(passes[p].c, passes[p].h, Mains(GroupsOf(passes[p])), GlobalOf(p))
    /\ \A k \in 1..Len(passes[p].items) :
         DisplayedMembers(p, k) =
           IF HasOverride(p, k)
           THEN OrderOf(passes[p].c, passes[p].subh[k], MembersOf(p, k),
                        Merged(GlobalOf(p), OverrideOf(p, k)))
           ELSE MembersOf(p, k)

\* under the first snapshot: the headers ascending (5 before 4), the members
\* of the group with {order: desc} descending (6 before 3), the members of
\* the other group as configured (1 before 2, which ascending would reverse)
C11_Witness ==
  \E p \in Showing("groups") :
    /\ passes[p].h = 1 /\ passes[p].subh = <<1, 1>>
    /\ DisplayCfgs = <<5, 6, 3, 4, 1, 2>>

-----------------------------------------------------------------------------
(* _getSortValue and the ordering of a flat list on their own.  Either a
   panel, a configuration, a sort_override (or none) and a snapshot are
   drawn, and the key of the panel is extracted with the sort specification
   the renderers would pass; or a configuration and a snapshot are drawn, and
   the cards are mapped and sorted as _renderFlatCards does. *)

\* the configurations drawn: Inputs from the seventh on
ProbeInputIds == (Len(HostInputObjects) + 1)..Len(Inputs)

\* the sort_override a group may have; Null: the key is extracted under the
\* global specification, as for a flat list or a group header
ProbeOverrides ==
  { Null,
    Obj([entity |-> Str(<<>>)]),
    Obj([entity |-> EB]),
    Obj([order |-> W("desc")]),
    Obj([attribute |-> Str(<<>>)]),
    Obj([attribute |-> Path(<<"state">>)]),
    Obj([attribute |-> Path(<<"battery_level">>)]),
    Obj([attribute |-> Path(<<"attributes", "battery_level">>)]),
    Obj([attribute |-> Path(<<"attributes", "level">>)]),
    Obj([attribute |-> Path(<<"level">>)]),
    Obj([attribute |-> Path(<<"nul">>)]),
    Obj([attribute |-> Path(<<"attributes", "nul">>)]) }

\* the panels drawn: the descriptors, and panels with a name that is empty,
\* 0 or null, with an entities list of objects, with an empty entities list,
\* with an entity that is no string; and no panel at all
ProbePanels ==
  { CardCfg(d) : d \in Descriptors } \cup
  { Obj([type |-> W("button"), entity |-> EA, name |-> Str(<<>>)]),
    Obj([type |-> W("button"), entity |-> EA, name |-> Num(0)]),
    Obj([type |-> W("button"), entity |-> EB, name |-> Null]),
    Obj([type |-> W("entities"), entities |-> Arr(<<Obj([entity |-> EB]), EA>>)]),
    Obj([type |-> W("entities"), entities |-> Arr(<<>>)]),
    Obj([type |-> W("button"), entity |-> Num(5), entities |-> Arr(<<EC>>)]),
    Undef }

\* the snapshots drawn (0: this._hass is undefined)
ProbeSnapshots == {0, 3, 4, 5}

\* the snapshots a flat list is sorted under
OrderSnapshots == {1, 2, 3, 4, 5}

\* the sort specification a renderer passes to _getSortValue under
\* configuration c: the global one (lines 259, 278), or for the members of a
\* group with sort_override o the merged one (lines 297-298)
SortCfgFor(c, o) ==
  Or(InnerSort(Obj([sort_override |-> o]), Or(Get(NormalisedConfig(Inputs[c]), "sort"), DefaultSort)),
     Or(Get(NormalisedConfig(Inputs[c]), "sort"), DefaultSort))

InitKeys ==
  /\ _config = 0 /\ _hass = 0 /\ _built = FALSE /\ _root = NoRoot
  /\ _helpersPromise = 0 /\ _cardCache = EmptyCache
  /\ promises = <<>> /\ elements = <<>> /\ passes = <<>>
  /\ factoryCalls = [d \in Descriptors |-> 0]
  /\ thrown = "" /\ nHass = 0 /\ nCfg = 0 /\ loadCardHelpers = FALSE
  /\ \/ probe \in [op : {"key"}, c : ProbeInputIds, o : ProbeOverrides,
                   h : ProbeSnapshots, card : ProbePanels]
     \/ probe \in [op : {"order"}, c : ProbeInputIds, h : OrderSnapshots]

\* this._getSortValue(card, sortCfg) on the drawn panel
GetSortValue ==
  /\ probe.op = "key"
  /\ probe' =
       [op |-> "keyed", c |-> probe.c, o |-> probe.o, h |-> probe.h, card |-> probe.card,
        sortCfg |-> SortCfgFor(probe.c, probe.o),
        entity |-> EntityId([_config |-> probe.c, _hass |-> probe.h], probe.card,
                            SortCfgFor(probe.c, probe.o)),
        key |-> _getSortValue([_config |-> probe.c, _hass |-> probe.h], probe.card,
                              SortCfgFor(probe.c, probe.o))]
  /\ UNCHANGED <<_config, _hass, _built, _root, _helpersPromise, _cardCache, promises,
                 elements, passes, factoryCalls, thrown, nHass, nCfg, loadCardHelpers>>

\* lines 259-265: the cards of the drawn configuration mapped and sorted
SortCards ==
  /\ probe.op = "order"
  /\ probe' =
       [op |-> "ordered", c |-> probe.c, h |-> probe.h,
        sortCfg |-> SortCfgFor(probe.c, Null),
        items |-> sort(MapItems([_config |-> probe.c, _hass |-> probe.h],
                                Or(Get(NormalisedConfig(Inputs[probe.c]), "cards"), Arr(<<>>)).a,
                                SortCfgFor(probe.c, Null)),
                       SortCfgFor(probe.c, Null))]
  /\ UNCHANGED <<_config, _hass, _built, _root, _helpersPromise, _cardCache, promises,
                 elements, passes, factoryCalls, thrown, nHass, nCfg, loadCardHelpers>>

NextKeys == GetSortValue \/ SortCards

SpecKeys == InitKeys /\ [][NextKeys]_vars

-----------------------------------------------------------------------------
(* The order of a flat list, by timestamp, by attribute and by entity id *)

\* the card the probe stands for
ProbeThis == [_config |-> probe.c, _hass |-> probe.h]

\* line 172
ByOf(sortCfg) == Or(Get(sortCfg, "by"), W("entity_id"))

\* the flat list was sorted by one of bys in the given order
Ordered(bys, order) ==
  /\ probe.op = "ordered"
  /\ ByOf(probe.sortCfg) \in bys
  /\ Or(Get(probe.sortCfg, "order"), W("asc")) = order

\* line 175: the state record of the k-th displayed panel
RecordOf(k) ==
  StateOf(ProbeThis, EntityId(ProbeThis, CardCfg(probe.items[k].cfg), probe.sortCfg))

HasTimestamp(k) ==
  /\ Truthy(RecordOf(k))
  /\ DateGetTime(IF ByOf(probe.sortCfg) = W("last_changed")
                 THEN Get(RecordOf(k), "last_changed")
                 ELSE Get(RecordOf(k), "last_updated")).t = "num"

\* C12: sorted by last_changed or last_updated in descending order, a panel
\* whose entity has no state record has the key 0 and is displayed after every
\* panel whose record has a valid timestamp
C12_MissingRecordLast ==
  Ordered({W("last_changed"), W("last_updated")}, W("desc")) =>
    \A i, j \in 1..Len(probe.items) :
       ~Truthy(RecordOf(i)) /\ HasTimestamp(j) =>
          probe.items[i].value = Num(0) /\ j < i

\* sorted by last_changed, newest first: l.b (9), l.c (7), l.a (5), and l.n,
\* which has no record, last with the key 0
C12_Witness ==
  /\ Ordered({W("last_changed")}, W("desc"))
  /\ probe.h = 3
  /\ Cfgs(probe.items) = <<1, 6, 2, 7>>
  /\ probe.items[4].value = Num(0)
  /\ ~Truthy(RecordOf(4))
  /\ \A k \in 1..3 : HasTimestamp(k)

\* lines 193-197 on the k-th displayed panel: its record has no value under
\* the path, directly or under "attributes."
LacksAttribute(k) ==
  /\ Truthy(RecordOf(k))
  /\ _readAttributePath(RecordOf(k), Get(probe.sortCfg, "attribute")) = Undef
  /\ _readAttributePath(RecordOf(k),
        Str(<<"attributes", ".">> \o Get(probe.sortCfg, "attribute").s)) = Undef

\* C13: sorted by attribute with numeric true, a panel whose record lacks the
\* attribute is displayed before every panel with a numeric value in ascending
\* order and after every one of them in descending order
C13_MissingAttributeIsMinusInfinity ==
  \A order \in {W("asc"), W("desc")} :
    Ordered({W("attribute")}, order) /\ Get(probe.sortCfg, "numeric") = Bool(TRUE) =>
      \A i, j \in 1..Len(probe.items) :
         LacksAttribute(i) /\ probe.items[j].value.t = "num" =>
            IF order = W("asc") THEN i < j ELSE j < i

\* ascending by battery_level: l.b (-3) is displayed before l.c, whose record
\* has no battery_level and whose key is the empty string
C13_MissingAfterNegative ==
  /\ Ordered({W("attribute")}, W("asc"))
  /\ Get(probe.sortCfg, "numeric") = Bool(TRUE)
  /\ probe.h = 3
  /\ Cfgs(probe.items) = <<1, 6, 7, 2>>
  /\ probe.items[1].value = Num(0 - 3)
  /\ LacksAttribute(2)
  /\ probe.items[2].value = Str(<<>>)

\* C14: sorted by entity_id ascending without sort.entity, a flat list of
\* panels with an entity of their own is displayed in the ascending order of
\* the entity ids, whatever the snapshot holds
C14_EntityIdAscending ==
  Ordered({W("entity_id")}, W("asc")) /\ ~Truthy(Get(probe.sortCfg, "entity")) =>
    [k \in 1..Len(probe.items) |-> Get(CardCfg(probe.items[k].cfg), "entity")]
      = <<EA, EB, EC, ED>>

\* the panels configured as l.b, l.a, l.c, l.n are displayed as l.a, l.b, l.c,
\* l.n under a snapshot without any record
C14_Witness ==
  /\ Ordered({W("entity_id")}, W("asc"))
  /\ probe.h = 4
  /\ \A k \in 1..Len(probe.items) : ~Truthy(RecordOf(k))
  /\ Cfgs(probe.items) = <<2, 1, 6, 7>>

-----------------------------------------------------------------------------
(* The snapshot on the displayed elements *)

\* the elements of a sequence of elements
ElementsOf(els) == {els[i] : i \in 1..Len(els)}

\* pass p pushes an element onto its els (lines 272, 295, 311)
Pushes(p) == Len(passes'[p].els) > Len(passes[p].els)

\* C15: in a pass that completes without fault, every element placed in the
\* display, cached or newly built, was assigned the live snapshot during the
\* pass: an element enters a pass's collection only in the step that assigns
\* it the card's current snapshot, and the pass displays nothing but its
\* collection
C15_DisplayedHaveSnapshot ==
  [][/\ \A p \in 1..Len(passes') :
          IF p > Len(passes) THEN passes'[p].els = <<>>
          ELSE Pushes(p) =>
                 /\ passes'[p].els = Append(passes[p].els, passes[p].el)
                 /\ _hass # 0
                 /\ elements'[passes[p].el].hass = _hass
     /\ \A p \in 1..Len(passes') :
          EndsDone(p) => ElementsOf(_root'.children) \subseteq ElementsOf(passes'[p].els)]_vars

\* the second pass is on display; it built nothing, its elements are those
\* the first pass built under the first snapshot, and they hold the second
C15_Witness ==
  /\ Len(passes) = 2 /\ passes[1].pc = "done" /\ passes[2].pc = "done"
  /\ _root.by = 2 /\ _root.children # <<>>
  /\ passes[1].h = 1 /\ passes[2].h = 2 /\ _hass = 2
  /\ ElementsOf(passes[2].els) = ElementsOf(passes[1].els)
  /\ \A d \in Descriptors : factoryCalls[d] <= 1
  /\ \A i \in 1..Len(_root.children) : elements[_root.children[i]].hass = 2

-----------------------------------------------------------------------------
(* The life of a cache entry *)

\* setConfig accepted a configuration in this step (lines 47-80)
Configured == nCfg' = nCfg + 1 /\ thrown' = ""

\* pass p, which missed the cache for descriptor d (line 251) and has waited
\* for the construction, stores its result in this step (line 254)
StoresOwn(p, d) ==
  /\ passes[p].pc = "helpers" /\ passes[p].cur = d
  /\ passes'[p].pc = "got" /\ passes'[p].el = _cardCache'[d]
  /\ passes'[p].el # NoElement => passes'[p].el \notin DOMAIN elements

\* C16 as stated: the cache is append-only, a mapped descriptor stays mapped
\* to the same element whatever happens
C16_AppendOnly ==
  [][\A d \in Descriptors :
       _cardCache[d] # NoElement => _cardCache'[d] = _cardCache[d]]_vars

\* C16: every accepted setConfig empties the cache and a rejected one leaves
\* it as it is; otherwise an entry changes only when a pass that missed the
\* cache for that descriptor stores what its own construction gave, be the
\* descriptor mapped by another pass in the meantime or not
C16_ResetOrOwnStore ==
  [][/\ Configured => _cardCache' = EmptyCache
     /\ \A d \in Descriptors :
          _cardCache'[d] # _cardCache[d] =>
             \/ Configured
             \/ \E p \in 1..Len(passes) : StoresOwn(p, d)]_vars

\* the first pass displayed the elements it had built and cached, and the
\* second accepted setConfig has left none of them in the cache
C16_Witness ==
  /\ nCfg = 2 /\ thrown = "" /\ _cardCache = EmptyCache
  /\ Len(passes) >= 1 /\ passes[1].pc = "done" /\ passes[1].els # <<>>
  /\ \A i \in 1..Len(passes[1].els) : elements[passes[1].els[i]].kind = "card"

-----------------------------------------------------------------------------
(* The keys _getSortValue extracts *)

\* a key was extracted under one of bys
Keyed(bys) == probe.op = "keyed" /\ ByOf(probe.sortCfg) \in bys

\* line 175: the state record of the probe's panel
ProbeRecord ==
  IF Truthy(probe.entity) THEN StateOf(ProbeThis, probe.entity) ELSE Null

\* the kinds of key of the sort specifications, `bogus` being none the card knows
Kinds == {ByOf(ProbeSorts[i]) : i \in 1..Len(ProbeSorts)}

\* C17: whatever by is, for a panel whose entity is absent or has no state
\* record _getSortValue returns without raising, and returns the entity id
\* or the empty string for entity_id, 0 for last_changed and last_updated,
\* the empty string for everything else
C17_MissingDataDefault ==
  Keyed(Kinds) /\ ~Truthy(ProbeRecord) =>
    /\ probe.key # Throw
    /\ probe.key =
         IF ByOf(probe.sortCfg) = W("entity_id")
         THEN (IF Truthy(probe.entity) THEN probe.entity ELSE Str(<<>>))
         ELSE IF ByOf(probe.sortCfg) \in {W("last_changed"), W("last_updated")}
         THEN Num(0)
         ELSE Str(<<>>)

\* by last_updated, the card has no snapshot at all: the key of l.b is 0
C17_Witness ==
  /\ Keyed({W("last_updated")})
  /\ probe.h = 0 /\ probe.card = CardCfg(1) /\ probe.entity = EB
  /\ ~Truthy(ProbeRecord)
  /\ probe.key = Num(0)

\* the first entry of the panel's entities list
FirstEntity(cardCfg) ==
  IF Get(cardCfg, "entities").t = "arr" /\ Len(Get(cardCfg, "entities").a) > 0
  THEN Get(cardCfg, "entities").a[1]
  ELSE Undef

\* the panel's own identifier: its entity field, a non-empty string; else the
\* first entry of its entities list, a string or an object with a string as
\* entity; else undefined
PanelEntity(cardCfg) ==
  IF IsString(Get(cardCfg, "entity")) /\ Truthy(Get(cardCfg, "entity"))
  THEN Get(cardCfg, "entity")
  ELSE IF IsString(FirstEntity(cardCfg)) THEN FirstEntity(cardCfg)
  ELSE IF IsString(Get(FirstEntity(cardCfg), "entity")) THEN Get(FirstEntity(cardCfg), "entity")
  ELSE Undef

\* the global specification of the probe's configuration
ProbeGlobal == Get(NormalisedConfig(Inputs[probe.c]), "sort")

\* null and undefined are one absent identifier
SameId(a, b) == a = b \/ (IsNullish(a) /\ IsNullish(b))

\* C18 as stated: the identifier is the sort specification's entity, else the
\* panel's own, else undefined, and nothing else is looked at
C18_PanelSourcesOnly ==
  Keyed(Kinds) =>
    SameId(probe.entity,
           IF Truthy(Get(probe.sortCfg, "entity")) THEN Get(probe.sortCfg, "entity")
           ELSE PanelEntity(probe.card))

\* C18: the identifier is the sort specification's entity, else the panel's
\* own, else the entity of the card's global sort specification when that is
\* a non-empty string, else absent
C18_GlobalEntityLast ==
  Keyed(Kinds) =>
    SameId(probe.entity,
           IF Truthy(Get(probe.sortCfg, "entity")) THEN Get(probe.sortCfg, "entity")
           ELSE IF ~IsNullish(PanelEntity(probe.card)) THEN PanelEntity(probe.card)
           ELSE IF IsString(Get(ProbeGlobal, "entity")) /\ Truthy(Get(ProbeGlobal, "entity"))
           THEN Get(ProbeGlobal, "entity")
           ELSE Null)

\* a group's sort_override sets entity to the empty string over a global
\* specification with entity l.a: a member without an entity of its own is
\* keyed by l.a
C18_Witness ==
  /\ Keyed(Kinds)
  /\ probe.o = Obj([entity |-> Str(<<>>)])
  /\ ~Truthy(Get(probe.sortCfg, "entity"))
  /\ Get(ProbeGlobal, "entity") = EA
  /\ probe.card = CardCfg(8) /\ IsNullish(PanelEntity(probe.card))
  /\ probe.entity = EA

\* the first of the panel's name, the record's friendly_name and the entity
\* id that is neither null nor undefined, else the empty string
FirstNonNull ==
  Coalesce(Get(probe.card, "name"),
     Coalesce(Get(Get(ProbeRecord, "attributes"), "friendly_name"),
        Coalesce(probe.entity, Str(<<>>))))

\* C19 as stated: by name, for a panel with a state record, the key is the
\* first non-null of the panel's name, the friendly_name, the entity id, ""
C19_FirstNonNull ==
  Keyed({W("name")}) /\ Truthy(ProbeRecord) => probe.key = FirstNonNull

\* C19: by name, for a panel with a state record, the key is the first
\* non-null of the panel's name, the friendly_name and the entity id when that
\* value is truthy, and the empty string when it is falsy (0, false, "")
C19_FirstNonNullIfTruthy ==
  Keyed({W("name")}) /\ Truthy(ProbeRecord) =>
    probe.key = IF Truthy(FirstNonNull) THEN FirstNonNull ELSE Str(<<>>)

\* a panel named 0 whose record has the friendly_name "A": the key is the
\* empty string
C19_Witness ==
  /\ Keyed({W("name")})
  /\ probe.h = 3 /\ probe.entity = EA /\ Truthy(ProbeRecord)
  /\ Get(probe.card, "name") = Num(0)
  /\ Get(Get(ProbeRecord, "attributes"), "friendly_name") = Str(<<"A">>)
  /\ probe.key = Str(<<>>)

\* line 193: the path
AttrPath ==
  Or(Get(probe.sortCfg, "attribute"), Or(Get(ProbeGlobal, "attribute"), Str(<<>>)))

\* the path read against the whole record, and with "attributes." before it
Direct == _readAttributePath(ProbeRecord, AttrPath)

Prefixed == _readAttributePath(ProbeRecord, Str(<<"attributes", ".">> \o AttrPath.s))

\* C20: by attribute, the path is the specification's attribute, else the
\* global one's. A value the direct lookup finds is the key; when the direct
\* lookup is undefined and the path starts with "attributes." the key is the
\* empty string; when it is undefined and the path does not start so, the key
\* is what the prefixed lookup finds, the empty string when that is undefined
C20_DirectThenPrefixedOnce ==
  Keyed({W("attribute")}) /\ Truthy(ProbeRecord) =>
    /\ Direct # Undef => probe.key = Coalesce(Direct, Str(<<>>))
    /\ Direct = Undef /\ StartsWithAttributes(AttrPath.s) => probe.key = Str(<<>>)
    /\ Direct = Undef /\ ~StartsWithAttributes(AttrPath.s) =>
         probe.key = Coalesce(Prefixed, Str(<<>>))
    /\ Direct = Undef /\ Prefixed = Undef => probe.key = Str(<<>>)

\* the path attributes.level on the record of l.a, which has no
\* attributes.level but has attributes.attributes.level: the key is the empty
\* string, the path is not tried a second time
C20_Witness ==
  /\ Keyed({W("attribute")})
  /\ probe.h = 3 /\ probe.entity = EA /\ Truthy(ProbeRecord)
  /\ AttrPath = Path(<<"attributes", "level">>)
  /\ Direct = Undef /\ Prefixed = Num(7)
  /\ probe.key = Str(<<>>)

-----------------------------------------------------------------------------
(* Keys that are no numbers, in numeric mode *)

\* lines 217-220 on the k-th displayed panel: whether its key coerces to a
\* finite number
CoercesFinite(k) == IsFinite(Number(probe.items[k].value))

\* C21: in numeric mode and ascending order every panel whose key does not
\* coerce to a finite number is displayed before every panel whose key does,
\* and the sort raises nothing: every configured panel is displayed
C21_NonFiniteFirst ==
  Ordered(Kinds, W("asc")) /\ Truthy(Get(probe.sortCfg, "numeric")) =>
    /\ \A i, j \in 1..Len(probe.items) :
         ~CoercesFinite(i) /\ CoercesFinite(j) => i < j
    /\ ~Throws(probe.items)
    /\ Len(probe.items) = Len(Get(NormalisedConfig(Inputs[probe.c]), "cards").a)

\* by state under the second snapshot, l.n configured first: l.b, l.a and
\* l.c, whose states are "B", "b" and "b", are displayed in this order before
\* l.n (no record, the key "" is 0)
C21_Witness ==
  /\ Ordered({W("state")}, W("asc")) /\ Truthy(Get(probe.sortCfg, "numeric"))
  /\ probe.h = 2
  /\ Get(NormalisedConfig(Inputs[probe.c]), "cards").a = LastCards
  /\ Cfgs(probe.items) = <<1, 2, 6, 7>>
  /\ \A k \in 1..3 : ~CoercesFinite(k)
  /\ CoercesFinite(4)

-----------------------------------------------------------------------------
(* One entity for every panel, and names without a state record *)

\* the cards of the probe's configuration
ProbeCardsOf == Get(NormalisedConfig(Inputs[probe.c]), "cards").a

\* C27: when the sort specification has an entity and by is not name, every
\* panel has the same key, and the flat list is displayed in its configured
\* order, whatever the snapshot, the order and numeric are
C27_OverrideKeepsOrder ==
  Ordered(Kinds \ {W("name")}, Or(Get(probe.sortCfg, "order"), W("asc")))
    /\ Truthy(Get(probe.sortCfg, "entity")) =>
      /\ \A i, j \in 1..Len(probe.items) : probe.items[i].value = probe.items[j].value
      /\ Cfgs(probe.items) = ProbeCardsOf

\* by the state of l.a, numeric and descending, under the first snapshot:
\* every key is "2", and l.b, l.a, l.c, l.n are displayed as configured,
\* though their own states are 10, 2 and b
C27_Witness ==
  /\ Ordered({W("state")}, W("desc")) /\ Truthy(Get(probe.sortCfg, "numeric"))
  /\ Get(probe.sortCfg, "entity") = EA
  /\ probe.h = 1
  /\ \A k \in 1..4 : probe.items[k].value = Str(<<"2">>)
  /\ Get(StateOf(ProbeThis, EB), "state") = Str(<<"1", "0">>)
  /\ Cfgs(probe.items) = <<1, 2, 6, 7>>

\* C30: by name, a panel whose entity has no state record has the empty
\* string as its key even when it has a name; in a flat list such panels are
\* displayed in their configured relative order
C30_NameNeedsRecord ==
  /\ Keyed({W("name")}) /\ ~Truthy(ProbeRecord) => probe.key = Str(<<>>)
  /\ Ordered({W("name")}, Or(Get(probe.sortCfg, "order"), W("asc"))) =>
       \A i, j \in 1..Len(probe.items) :
          ~Truthy(RecordOf(i)) /\ ~Truthy(RecordOf(j)) =>
             /\ probe.items[i].value = Str(<<>>)
             /\ _compare(probe.items[i], probe.items[j], probe.sortCfg) = Num(0)
             /\ i < j <=> probe.items[i].pos < probe.items[j].pos

\* l.n named "Z", l.n without a name and l.m named "A" have no record: their
\* keys are empty and they are displayed in this order, before l.a
C30_Witness ==
  /\ Ordered({W("name")}, W("asc"))
  /\ probe.h = 3 /\ ProbeCardsOf = NamedCards
  /\ Get(CardCfg(probe.items[1].cfg), "name") = Str(<<"Z">>)
  /\ Get(CardCfg(probe.items[3].cfg), "name") = Str(<<"A">>)
  /\ \A k \in 1..3 : ~Truthy(RecordOf(k)) /\ probe.items[k].value = Str(<<>>)
  /\ Cfgs(probe.items) = NamedCards

-----------------------------------------------------------------------------
(* The display of group mode *)

\* the descriptors of the groups pass p began under: every main with its
\* members, as configured
GroupDescriptors(p) ==
  LET F[k \in 0..Len(GroupsOf(passes[p]))] ==
        IF k = 0 THEN <<>>
        ELSE F[k - 1] \o <<Get(GroupsOf(passes[p])[k], "main")>>
                      \o Or(Get(GroupsOf(passes[p])[k], "cards"), Arr(<<>>)).a
  IN F[Len(GroupsOf(passes[p]))]

\* the display of pass p is made of one block for each group, the groups in
\* the order of their mains' keys under the global specification: the main
\* element, followed by the elements of the group's members and of no other
InBlocks(p) ==
  /\ Len(_root.children) = Len(GroupDescriptors(p))
  /\ \A i, j \in 1..Len(_root.children) : i # j => _root.children[i] # _root.children[j]
  /\ DisplayedHeaders(p) =
       OrderOf(passes[p].c, passes[p].h, Mains(GroupsOf(passes[p])), GlobalOf(p))
  /\ \A k \in 1..Len(passes[p].items) :
       /\ DisplayCfgs[BlockStart(p, k) + 1] =
            Get(GroupsOf(passes[p])[passes[p].items[k].pos], "main")
       /\ ElementsOf(DisplayedMembers(p, k)) = ElementsOf(MembersOf(p, k))

\* C22 as stated: in group mode the display of a completed pass is made of the
\* groups' blocks, for every configuration
C22_Blocks == \A p \in Showing("groups") : InBlocks(p)

\* C22: in group mode the display of a completed pass is made of the groups'
\* blocks whenever the mains and members of the groups are pairwise distinct
\* objects
C22_BlocksOfDistinctPanels ==
  \A p \in Showing("groups") : Distinct(GroupDescriptors(p)) => InBlocks(p)

\* two groups of one member each under the first snapshot: the group of main
\* 5 (state 2) is displayed before the group of main 4 (state b), each main
\* followed by its member
C22_Witness ==
  \E p \in Showing("groups") :
    /\ Distinct(GroupDescriptors(p)) /\ Len(GroupsOf(passes[p])) = 2
    /\ passes[p].h = 1
    /\ DisplayCfgs = <<5, 2, 4, 1>>

-----------------------------------------------------------------------------
(* Flat mode or group mode *)

\* the configuration pass p began under, as setConfig was given it
InputOf(p) == Inputs[passes[p].c]

\* the descriptors of the elements pass p has resolved
Resolved(p) == {elements[passes[p].els[i]].cfg : i \in 1..Len(passes[p].els)}

\* C28: a pass under a configuration with a cards list, empty or not, runs
\* in flat mode (unless a fault has ended it, which leaves it without a mode)
\* and resolves panels of cards only, whatever groups there are;
\* a pass runs in group mode only when cards is absent or null and groups is
\* supplied
C28_CardsDecideMode ==
  \A p \in 1..Len(passes) :
    /\ Get(InputOf(p), "cards").t = "arr" =>
         /\ passes[p].mode = "flat" \/ passes[p].pc \in {"thrown", "failed"}
         /\ Resolved(p) \subseteq ElementsOf(Get(InputOf(p), "cards").a)
         /\ passes[p].pc = "done" /\ _root.by = p =>
              ElementsOf(DisplayCfgs) \subseteq ElementsOf(Get(InputOf(p), "cards").a)
    /\ passes[p].mode = "groups" =>
         IsNullish(Get(InputOf(p), "cards")) /\ ~IsNullish(Get(InputOf(p), "groups"))

\* an empty cards list next to a group: the pass ran in flat mode, and the
\* display it left is empty
C28_Witness ==
  \E p \in Showing("flat") :
    /\ Get(InputOf(p), "cards") = Arr(<<>>)
    /\ Get(InputOf(p), "groups").t = "arr" /\ Get(InputOf(p), "groups").a # <<>>
    /\ _root.children = <<>>

-----------------------------------------------------------------------------
(* The cache and the display when every pass has ended *)

\* no pass is in flight
NoneInFlight == \A p \in 1..Len(passes) : passes[p].pc \in {"done", "failed", "idle"}

\* no pass is in flight, and the pass that ended last displayed its elements
AtRest ==
  /\ NoneInFlight
  /\ _root.set /\ _root.by # 0
  /\ passes[_root.by].pc = "done"

\* C26: whenever no pass is in flight and the pass that ended last completed
\* without fault, every displayed element is the element the cache holds for
\* its descriptor
C26_CacheAgreesAtRest ==
  AtRest =>
    \A i \in 1..Len(_root.children) :
       _cardCache[elements[_root.children[i]].cfg] = _root.children[i]

\* both passes have completed without fault; the display holds the element the
\* first pass built for a descriptor, the cache the one the second pass built
C26_StaleElement ==
  /\ AtRest /\ Len(passes) = 2 /\ passes[1].pc = "done" /\ passes[2].pc = "done"
  /\ \E i \in 1..Len(_root.children) :
       /\ _root.children[i][1] = 1
       /\ _cardCache[elements[_root.children[i]].cfg] # NoElement
       /\ _cardCache[elements[_root.children[i]].cfg][1] = 2

-----------------------------------------------------------------------------
(* The helpers' promise *)

\* pass p begins to wait for the helpers in this step (line 237)
AwaitsHelpers(p) ==
  /\ passes'[p].pc = "helpers"
  /\ p > Len(passes) \/ passes[p].pc # "helpers" \/ passes[p].els # passes'[p].els

\* C29: between two setConfig calls the loader is invoked at most once and
\* every resolution awaits the one promise. A promise is made only while
\* this._helpersPromise is unset, and is stored there; what is stored is
\* replaced only by a setConfig that accepts its configuration; every pass
\* that begins to wait for the helpers waits for the stored promise; and a
\* promise that has settled keeps its result
C29_OneLoadPerConfiguration ==
  [][/\ Len(promises') >= Len(promises)
     /\ Len(promises') > Len(promises) =>
          /\ Len(promises') = Len(promises) + 1
          /\ _helpersPromise = 0 /\ _helpersPromise' = Len(promises')
     /\ _helpersPromise' # _helpersPromise =>
          \/ Configured /\ _helpersPromise' = 0
          \/ _helpersPromise = 0 /\ Len(promises') > Len(promises)
     /\ \A p \in 1..Len(passes') :
          AwaitsHelpers(p) => passes'[p].pr = _helpersPromise' /\ _helpersPromise' # 0
     /\ \A pr \in 1..Len(promises) :
          promises[pr].state # "pending" => promises'[pr] = promises[pr]]_vars

\* the loader was invoked once and its promise resolved to nothing; two
\* passes have ended since, and every element on display is the placeholder
\* for missing helpers
C29_Witness ==
  /\ Len(promises) = 1 /\ promises[1].loader /\ promises[1].state = "null"
  /\ _helpersPromise = 1
  /\ Len(passes) = 2 /\ passes[1].pc = "done" /\ passes[2].pc = "done"
  /\ passes[1].els # <<>> /\ passes[2].els # <<>>
  /\ \A i \in 1..Len(_root.children) : elements[_root.children[i]].kind = "error"

-----------------------------------------------------------------------------
(* A pass that outlives its configuration *)

\* the panel descriptors of configuration c: its cards, or else the mains and
\* members of its groups
PanelsOf(c) ==
  IF Truthy(Get(NormalisedConfig(Inputs[c]), "cards"))
  THEN ElementsOf(Get(NormalisedConfig(Inputs[c]), "cards").a)
  ELSE UNION {{Get(g, "main")} \cup ElementsOf(Or(Get(g, "cards"), Arr(<<>>)).a) :
              g \in ElementsOf(Or(Get(NormalisedConfig(Inputs[c]), "groups"), Arr(<<>>)).a)}

\* C25: once a snapshot has triggered rendering under the current
\* configuration and every pass has ended, the display holds elements of
\* panels of the current configuration only
C25_OnlyCurrentPanels ==
  _config # 0 /\ _built /\ _root.set /\ NoneInFlight =>
    \A i \in 1..Len(_root.children) :
       elements[_root.children[i]].cfg # 0 =>
          elements[_root.children[i]].cfg \in PanelsOf(_config)

\* the configuration was replaced by one with an empty cards list while the
\* first pass was suspended; the second pass, under the new configuration,
\* completed and displayed nothing; the first pass ended after it, and the
\* three panels of the previous configuration are on display
C25_StalePanels ==
  /\ _config = EmptyCardsInput /\ _built /\ NoneInFlight
  /\ Len(passes) = 2
  /\ passes[1].c = 1 /\ passes[1].pc = "done"
  /\ passes[2].c = EmptyCardsInput /\ passes[2].pc = "done"
  /\ _root.by = 1
  /\ ElementsOf(DisplayCfgs) = {1, 2, 3}

-----------------------------------------------------------------------------
(* The display once the passes have ended *)

\* what the promises and the factory are waited for always comes, and a pass
\* that can go on does
Fairness ==
  /\ \A pr \in 1..MaxSetHass : WF_vars(HelpersSettle(pr, "ok"))
  /\ \A p \in 1..MaxSetHass :
       /\ WF_vars(p \in 1..Len(passes) /\ _createCardElement(p, "element"))
       /\ WF_vars(p \in 1..Len(passes) /\ Continue(p))
       /\ WF_vars(p \in 1..Len(passes) /\ Catch(p))

\* the configuration whose sort throws, and the first flat list of the
\* combinations above: two panels whose order under the first snapshot is not
\* the one under the second
LiveInputs == {3, Len(HostInputObjects) + Len(ProbeInputs) + 1}

InitLive ==
  /\ _config \in LiveInputs
  /\ _hass = 0
  /\ _built = FALSE
  /\ _root = NoRoot
  /\ _helpersPromise = 0
  /\ _cardCache = EmptyCache
  /\ promises = <<>>
  /\ elements = <<>>
  /\ passes = <<>>
  /\ factoryCalls = [d \in Descriptors |-> 0]
  /\ thrown = ""
  /\ nHass = 0
  /\ nCfg = 1
  /\ loadCardHelpers \in BOOLEAN
  /\ probe = NoProbe

SpecLive == InitLive /\ [][NextConfigured]_vars /\ Fairness

\* a pass has ended with a fault, or the helpers' promise did not give helpers
Faulted ==
  \/ \E p \in 1..Len(passes) : passes[p].pc = "failed"
  \/ \E pr \in 1..Len(promises) : promises[pr].state \in {"null", "rejected"}
  \/ ~loadCardHelpers

\* the flat list of the configuration is on display in the order its keys
\* have under the snapshot the element holds
ShowsLatest ==
  /\ _hass # 0 /\ _root.set
  /\ DisplayCfgs = OrderOf(_config, _hass, Get(NormalisedConfig(Inputs[_config]), "cards").a,
                           Get(NormalisedConfig(Inputs[_config]), "sort"))

\* C24: if the factory always resolves and no snapshot arrives after the
\* latest one, then from some time on the display of a flat list is in the
\* sorted order of the latest snapshot, however the passes interleave
C24_EventuallyLatest ==
  <>[](\/ _hass = 0
       \/ ~Truthy(Get(NormalisedConfig(Inputs[_config]), "cards"))
       \/ Faulted
       \/ ShowsLatest)

\* the pass of the first snapshot ended after the pass of the second, without
\* any fault: no pass is in flight, no snapshot can follow, and the display is
\* in the order of the first snapshot, which is not the order of the second
C24_StaleOrder ==
  /\ AtRest /\ ~Faulted
  /\ Len(passes) = 2 /\ passes[1].pc = "done" /\ passes[2].pc = "done"
  /\ passes[1].h = 1 /\ passes[2].h = 2 /\ _hass = 2
  /\ passes[1].mode = "flat"
  /\ _root.by = 1
  /\ DisplayCfgs = Cfgs(passes[1].items)
  /\ ~ShowsLatest

-----------------------------------------------------------------------------
(* The arrays of a pass.  The lists of the configuration are arrays the host
   owns: this._config is a shallow copy (lines 47-61), so this._config.cards,
   this._config.groups and each g.cards are the host's own arrays.  Here the
   arrays are kept in a store and named by their index in it: the first is
   the cards list, the second the groups list (it holds the groups by their
   number), the next ones the members lists of the groups; what these hold
   are references, [ref |-> d] for descriptor d or group d.  .map() adds an
   array to the store, .sort() writes the array it is called on. *)

\* the configurations setConfig accepts
FrameInputs == {c \in 1..Len(Inputs) : ~IsConfigError(Inputs[c])}

ConfiguredGroups(c) == Or(Get(NormalisedConfig(Inputs[c]), "groups"), Arr(<<>>)).a

\* an array of references to the objects ds names
RefsTo(ds) == [i \in 1..Len(ds) |-> [ref |-> ds[i]]]

\* what the references of an array refer to
Referred(array) == [i \in 1..Len(array) |-> array[i].ref]

\* the arrays of configuration c as the host supplied them
HostArrays(c) ==
  << RefsTo(Or(Get(NormalisedConfig(Inputs[c]), "cards"), Arr(<<>>)).a),
     RefsTo([i \in 1..Len(ConfiguredGroups(c)) |-> i]) >>
  \o [i \in 1..Len(ConfiguredGroups(c)) |->
        RefsTo(Or(Get(ConfiguredGroups(c)[i], "cards"), Arr(<<>>)).a)]

\* a map that writes what it computes into the array it reads
ArrayMap_inPlace(arrays, src, items) == Append([arrays EXCEPT ![src] = items], items)

\* src.map(...): a new array, the last of the store; src is left as it is
ArrayMap(arrays, src, items) == Append(arrays, items)

\* arrays[ref].sort(...): in place
ArraySort(arrays, ref, sortCfg) == [arrays EXCEPT ![ref] = sort(arrays[ref], sortCfg)]

\* the renderer after its .map(): into the sort, or out by the exception of
\* _getSortValue
FrameMapped(f, mode, arrays, sortCfg) ==
  IF Throws(arrays[Len(arrays)])
  THEN [f EXCEPT !.pc = "thrown", !.mode = mode, !.arrays = arrays, !.sortCfg = sortCfg]
  ELSE [f EXCEPT !.pc = "mapped", !.mode = mode, !.arrays = arrays, !.items = Len(arrays),
                 !.sortCfg = sortCfg]

\* the main descriptors of the groups the groups list holds
FrameMains(f) == [i \in 1..Len(f.arrays[2]) |-> Get(ConfiguredGroups(f.c)[f.arrays[2][i].ref], "main")]

\* lines 259-263 and 278-283, behind the choice of _render (lines 328-332)
FrameMap ==
  /\ probe.op = "frame" /\ probe.pc = "start"
  /\ probe' =
       IF Truthy(Get(NormalisedConfig(Inputs[probe.c]), "cards"))
       THEN FrameMapped(probe, "flat",
                        ArrayMap(probe.arrays, 1,
                                 MapItems([_config |-> probe.c, _hass |-> probe.h], Referred(probe.arrays[1]),
                                          SortCfgFor(probe.c, Null))),
                        SortCfgFor(probe.c, Null))
       ELSE FrameMapped(probe, "groups",
                        ArrayMap(probe.arrays, 2,
                                 MapItems([_config |-> probe.c, _hass |-> probe.h], FrameMains(probe),
                                          SortCfgFor(probe.c, Null))),
                        SortCfgFor(probe.c, Null))
  /\ UNCHANGED <<_config, _hass, _built, _root, _helpersPromise, _cardCache, promises,
                 elements, passes, factoryCalls, thrown, nHass, nCfg, loadCardHelpers>>

\* lines 265 and 285: items.sort(...), groupItems.sort(...)
FrameSort ==
  /\ probe.op = "frame" /\ probe.pc = "mapped"
  /\ probe' = [probe EXCEPT !.pc = "sorted", !.g = 1,
                            !.arrays = ArraySort(probe.arrays, probe.items, probe.sortCfg)]
  /\ UNCHANGED <<_config, _hass, _built, _root, _helpersPromise, _cardCache, promises,
                 elements, passes, factoryCalls, thrown, nHass, nCfg, loadCardHelpers>>

\* the members of group g mapped: sorted in place under a sort_override
FrameSubItems(f, g, arrays, innerSort) ==
  IF Throws(arrays[Len(arrays)])
  THEN [f EXCEPT !.pc = "thrown", !.arrays = arrays]
  ELSE [f EXCEPT !.g = f.g + 1, !.subs = Append(f.subs, Len(arrays)),
                 !.arrays = IF Truthy(innerSort)
                            THEN ArraySort(arrays, Len(arrays), Or(innerSort, f.sortCfg))
                            ELSE arrays]

\* lines 297-305 for the group the loop is at: its members list is the array
\* after the groups list at the group's number
FrameGroup(f, g) ==
  FrameSubItems(f, g,
                ArrayMap(f.arrays, 2 + g,
                         MapItems([_config |-> f.c, _hass |-> f.h], Referred(f.arrays[2 + g]),
                                  Or(InnerSort(ConfiguredGroups(f.c)[g], f.sortCfg), f.sortCfg))),
                InnerSort(ConfiguredGroups(f.c)[g], f.sortCfg))

FrameMembers ==
  /\ probe.op = "frame" /\ probe.pc = "sorted" /\ probe.mode = "groups"
  /\ probe.g <= Len(probe.arrays[probe.items])
  /\ probe' = FrameGroup(probe, probe.arrays[probe.items][probe.g].pos)
  /\ UNCHANGED <<_config, _hass, _built, _root, _helpersPromise, _cardCache, promises,
                 elements, passes, factoryCalls, thrown, nHass, nCfg, loadCardHelpers>>

\* the renderer returns (lines 274, 315), or the pass ends in the catch of
\* _render (lines 333-336)
FrameEnd ==
  /\ probe.op = "frame"
  /\ \/ probe.pc = "thrown"
     \/ probe.pc = "sorted" /\ (probe.mode = "flat" \/ probe.g > Len(probe.arrays[probe.items]))
  /\ probe' = [probe EXCEPT !.pc = "ended", !.fault = (probe.pc = "thrown")]
  /\ UNCHANGED <<_config, _hass, _built, _root, _helpersPromise, _cardCache, promises,
                 elements, passes, factoryCalls, thrown, nHass, nCfg, loadCardHelpers>>

InitFrame ==
  /\ _config = 0 /\ _hass = 0 /\ _built = FALSE /\ _root = NoRoot
  /\ _helpersPromise = 0 /\ _cardCache = EmptyCache
  /\ promises = <<>> /\ elements = <<>> /\ passes = <<>>
  /\ factoryCalls = [d \in Descriptors |-> 0]
  /\ thrown = "" /\ nHass = 0 /\ nCfg = 0 /\ loadCardHelpers = FALSE
  /\ \E c \in FrameInputs, h \in OrderSnapshots :
       probe = [op |-> "frame", c |-> c, h |-> h, snapshot |-> Snapshots[h],
                arrays |-> HostArrays(c), pc |-> "start", mode |-> "", items |-> 0,
                sortCfg |-> Null, g |-> 0, subs |-> <<>>, fault |-> FALSE]

NextFrame == FrameMap \/ FrameSort \/ FrameMembers \/ FrameEnd

SpecFrame == InitFrame /\ [][NextFrame]_vars

\* C23: at every point of a pass, in flat or group mode, the configured cards
\* list, the groups list and each group's members list hold what the host
\* supplied, in the host's order, and the snapshot is the one that was set
C23_InputsUnchanged ==
  probe.op = "frame" =>
    /\ SubSeq(probe.arrays, 1, Len(HostArrays(probe.c))) = HostArrays(probe.c)
    /\ probe.snapshot = Snapshots[probe.h]

\* a pass in group mode has ended without fault: it put the groups in another
\* order than the configured one and sorted the members of a group into
\* another order than the configured one
C23_Witness ==
  /\ probe.op = "frame" /\ probe.pc = "ended" /\ ~probe.fault
  /\ probe.mode = "groups"
  /\ [i \in 1..Len(probe.arrays[probe.items]) |-> probe.arrays[probe.items][i].pos]
       # Referred(probe.arrays[2])
  /\ \E k \in 1..Len(probe.subs) :
        Cfgs(probe.arrays[probe.subs[k]])
          # Referred(probe.arrays[2 + probe.arrays[probe.items][k].pos])
====
